---- MODULE Spec2Model ----
(***************************************************************************)
(* A model of the precomputed atmospheric scattering pipeline of           *)
(* AtmosphereDeferredcaster (modules/atmosphere/rendering/                 *)
(* atmospheredeferredcaster.cpp) and of the sonification update handlers.  *)
(*                                                                         *)
(* The OpenGL context is modelled by the record gl (the bindings and the   *)
(* blend state the code touches), by the content of every texture          *)
(* (texContent: the sequence of terms that have been rendered into it) and *)
(* by the number of glGen / glDelete calls per object.  A rendering pass   *)
(* is one action; the sequence passes is the stream of draw passes that    *)
(* the code has issued, each with the tables it sampled.                   *)
(***************************************************************************)
EXTENDS Integers, Sequences, FiniteSets, TLC

VARIABLES
    pc,                 \* position of the caster in its lifecycle
    gl,                 \* OpenGL context state touched by the caster
    cache,              \* global::renderEngine->openglStateCache()
    texContent,         \* texture name -> sequence of terms rendered into it
    genCount,           \* GL object name -> number of glGen* calls
    delCount,           \* GL object name -> number of glDelete* calls
    locals,             \* locals of calculateAtmosphereParameters
    passes,             \* the draw passes issued so far
    config,             \* constructor arguments (textureScale, save flag)
    cpuTextures,        \* CPU side copies written when saving textures
    shadowConfArray,    \* _shadowConfArray (the printed-error flags)
    shadowDataArrayCache, \* _shadowDataArrayCache
    units,              \* the three member TextureUnits
    uniforms,           \* sampler / cull uniforms of the deferred program
    step3D,             \* a run of the layer loop calling step3DTexture
    integ,              \* a run of opticalDepth or of inscatter
    son,                \* CameraSonification and TimeSonification
    tel,                \* TelemetryModule: main thread and update thread
    sim                 \* SoftwareIntegrationModule: threads, peers, events

atmVars == <<pc, gl, cache, texContent, genCount, delCount, locals, passes,
             config, cpuTextures, shadowConfArray, shadowDataArrayCache,
             units, uniforms>>

otherVars == <<step3D, integ, son, tel, sim>>

vars == <<pc, gl, cache, texContent, genCount, delCount, locals, passes,
          config, cpuTextures, shadowConfArray, shadowDataArrayCache,
          units, uniforms, step3D, integ, son, tel, sim>>

----------------------------------------------------------------------------
(* Bounds of the model *)

MaxTextureScale == 2
MaxShadows == 2

(* Program constants *)

FirstScatteringOrder == 2
LastScatteringOrder == 4

----------------------------------------------------------------------------
(* Names of the OpenGL objects *)

MemberTables == {"transmittanceTable", "irradianceTable", "inScatteringTable"}
DeltaTables == {"deltaE", "deltaSRayleigh", "deltaSMie", "deltaJ"}
CalcObjects == {"calcFBO", "quadVao", "quadVbo"}
Textures == MemberTables \cup DeltaTables
GLObjects == Textures \cup CalcObjects

HostFBOs == {"windowFBO", "gBufferFBO"}
HostViewports == {<<0, 0, 1920, 1080>>, <<0, 0, 1280, 720>>}
HostBlendStates ==
    { [enabled |-> FALSE, equation |-> "GL_FUNC_ADD",
       func |-> <<"GL_ONE", "GL_ZERO">>],
      [enabled |-> TRUE, equation |-> "GL_FUNC_ADD",
       func |-> <<"GL_SRC_ALPHA", "GL_ONE_MINUS_SRC_ALPHA">>] }

(* Table sizes set by the constructor, as viewports <<x, y, w, h>> *)
TransmittanceTableSize(s) == <<256 * s, 64 * s>>
DeltaETableSize(s) == <<64 * s, 16 * s>>
TextureSize(s) == <<(32 * s) * (8 * s), 128 * s, 32 * s>>
ViewportOf(size) == <<0, 0, size[1], size[2]>>

----------------------------------------------------------------------------
(* Terms: what a pass renders.  A term has the kind of quantity, the       *)
(* scattering order it represents and whether every table it was computed  *)
(* from had been rendered before.                                          *)

Term(kind, order, valid) == [kind |-> kind, order |-> order, valid |-> valid]

Written(c) == c # <<>>
AllValid(c) == Written(c) /\ \A i \in 1..Len(c) : c[i].valid
LastOrder(c) == IF Written(c) THEN c[Len(c)].order ELSE 0

(* glEnable(GL_BLEND) with GL_FUNC_ADD and GL_ONE, GL_ONE adds the source  *)
(* to the destination; with blending disabled the source replaces it.      *)
AdditiveBlend(g) ==
    /\ g.blend.enabled
    /\ g.blend.equation = "GL_FUNC_ADD"
    /\ g.blend.func = <<"GL_ONE", "GL_ONE">>

BlendResult(g, dst, src) ==
    IF ~g.blend.enabled THEN src
    ELSE IF AdditiveBlend(g) THEN dst \o src
    ELSE dst \o [i \in 1..Len(src) |-> [src[i] EXCEPT !.valid = FALSE]]

(* glDrawArrays on the full-screen quad: writes the colour attachment of   *)
(* the bound framebuffer.  Only the calculation framebuffer has tables     *)
(* attached; a draw into a host framebuffer changes no table.              *)
DrawInto(g, content, attachment, src, clear) ==
    IF g.boundFBO = "calcFBO" /\ attachment \in Textures
    THEN [content EXCEPT ![attachment] =
             BlendResult(g, IF clear THEN <<>> ELSE @, src)]
    ELSE content

(* A record of one pass for the stream of passes *)
PassRecord(name, order, g, reads) ==
    [pass |-> name, order |-> order, blend |-> g.blend,
     target |-> g.attachment0, reads |-> reads]

----------------------------------------------------------------------------
(* OpenGL object management *)

GlGen(objs) == [o \in GLObjects |-> IF o \in objs THEN genCount[o] + 1
                                              ELSE genCount[o]]

GlDelete(objs) == [o \in GLObjects |-> IF o \in objs THEN delCount[o] + 1
                                                 ELSE delCount[o]]

Alive(o) == genCount[o] > delCount[o]

(* The tables a pass samples, with the content it finds in them *)
Sample(texs) == [t \in texs |-> texContent[t]]

SamplesValid(texs) == \A t \in texs : AllValid(texContent[t])

----------------------------------------------------------------------------
(* The state after construction *)

NoLocals == [defaultFBO |-> "none", viewport |-> <<>>, scatteringOrder |-> 0]

NoUnits == [u \in MemberTables |-> [assigned |-> FALSE, bound |-> "none"]]

NoUniforms == [cullAtmosphere |-> 0, transmittanceTexture |-> "unset",
               irradianceTexture |-> "unset", inscatterTexture |-> "unset",
               hardShadows |-> "unset"]

ShadowConfiguration == [printedSourceError |-> FALSE,
                        printedCasterError |-> FALSE]

InitCaster(fbos, viewports, blends, scales, shadowCounts) ==
    /\ pc = "constructed"
    /\ \E fbo \in fbos, vp \in viewports, bs \in blends :
          /\ cache = [viewport |-> vp, blend |-> bs]
          /\ gl = [boundFBO |-> fbo, viewport |-> vp, blend |-> bs,
                   attachment0 |-> "none", attachment1 |-> "none",
                   drawBuffers |-> 1, vertexArray |-> "hostVao",
                   arrayBuffer |-> "hostVbo"]
    /\ texContent = [t \in Textures |-> <<>>]
    /\ genCount = [o \in GLObjects |-> 0]
    /\ delCount = [o \in GLObjects |-> 0]
    /\ locals = NoLocals
    /\ passes = <<>>
    /\ \E s \in scales, save \in BOOLEAN :
          config = [textureScale |-> s, saveCalculationTextures |-> save]
    /\ cpuTextures = {}
    /\ \E n \in shadowCounts :
          shadowConfArray = [i \in 1..n |-> ShadowConfiguration]
    /\ shadowDataArrayCache = <<>>
    /\ units = NoUnits
    /\ uniforms = NoUniforms

frameVars == <<shadowConfArray, shadowDataArrayCache, units, uniforms>>

----------------------------------------------------------------------------
(* AtmosphereDeferredcaster::initialize: creates the three tables and      *)
(* enters calculateAtmosphereParameters.                                   *)
Initialize ==
    /\ pc = "constructed"
    /\ genCount' = GlGen(MemberTables)
    /\ pc' = "calcSetup"
    /\ UNCHANGED <<gl, cache, texContent, delCount, locals, passes, config,
                   cpuTextures>>
    /\ UNCHANGED <<frameVars, otherVars>>

(* A setup that never binds the calculation framebuffer *)
CalcSetupNoBind ==
    /\ pc = "calcSetup"
    /\ locals' = [locals EXCEPT !.defaultFBO = gl.boundFBO,
                                !.viewport = cache.viewport]
    /\ genCount' = GlGen(CalcObjects)
    /\ gl' = [gl EXCEPT !.vertexArray = "quadVao", !.arrayBuffer = "quadVbo",
                        !.blend.enabled = FALSE]
    /\ pc' = "transmittance"
    /\ UNCHANGED <<cache, texContent, delCount, passes, config, cpuTextures>>
    /\ UNCHANGED <<frameVars, otherVars>>

(* calculateAtmosphereParameters, up to the first pass: saves the bound    *)
(* framebuffer and the viewport, creates and binds the calculation         *)
(* framebuffer and the quad, disables blending.                            *)
CalcSetup ==
    /\ pc = "calcSetup"
    /\ locals' = [locals EXCEPT !.defaultFBO = gl.boundFBO,
                                !.viewport = cache.viewport]
    /\ genCount' = GlGen(CalcObjects)
    /\ gl' = [gl EXCEPT !.boundFBO = "calcFBO", !.drawBuffers = 1,
                        !.attachment0 = "none", !.attachment1 = "none",
                        !.vertexArray = "quadVao", !.arrayBuffer = "quadVbo",
                        !.blend.enabled = FALSE]
    /\ pc' = "transmittance"
    /\ UNCHANGED <<cache, texContent, delCount, passes, config, cpuTextures>>
    /\ UNCHANGED <<frameVars, otherVars>>

(* The CPU copies computed when _saveCalculationTextures is set *)
SaveCpu(names) ==
    cpuTextures' = IF config.saveCalculationTextures
                   THEN cpuTextures \cup names ELSE cpuTextures

(* One pass: attach the target, set the viewport, sample the bound tables, *)
(* draw.  g is the context with the target attached.                       *)
Pass(name, order, g, reads, src, clear, nextPc) ==
    /\ gl' = g
    /\ texContent' = DrawInto(g, texContent, g.attachment0, src, clear)
    /\ passes' = Append(passes, PassRecord(name, order, g, Sample(reads)))
    /\ pc' = nextPc
    /\ UNCHANGED <<cache, delCount, locals, config>>
    /\ UNCHANGED <<frameVars, otherVars>>

CalculateTransmittance ==
    /\ pc = "transmittance"
    /\ Pass("transmittance", 1,
            [gl EXCEPT !.attachment0 = "transmittanceTable",
                       !.viewport = ViewportOf(
                           TransmittanceTableSize(config.textureScale))],
            {}, <<Term("T", 0, TRUE)>>, TRUE, "deltaE")
    /\ SaveCpu({"transmittance"})
    /\ UNCHANGED genCount

CalculateDeltaE ==
    /\ pc = "deltaE"
    /\ genCount' = GlGen({"deltaE"})
    /\ Pass("deltaE", 1,
            [gl EXCEPT !.attachment0 = "deltaE",
                       !.viewport = ViewportOf(
                           DeltaETableSize(config.textureScale))],
            {"transmittanceTable"},
            <<Term("deltaE", 1, SamplesValid({"transmittanceTable"}))>>,
            TRUE, "deltaS")
    /\ SaveCpu({"deltaE"})
(* calculateDeltaS(): renders deltaS Rayleigh and deltaS Mie together on   *)
(* two colour attachments, then detaches the second one.                   *)
CalculateDeltaS ==
    /\ pc = "deltaS"
    /\ genCount' = GlGen({"deltaSRayleigh", "deltaSMie"})
    /\ LET g == [gl EXCEPT !.attachment0 = "deltaSRayleigh",
                           !.attachment1 = "deltaSMie",
                           !.drawBuffers = 2,
                           !.viewport = ViewportOf(
                               TextureSize(config.textureScale))]
           ok == SamplesValid({"transmittanceTable"})
           c0 == DrawInto(g, texContent, g.attachment0,
                          <<Term("deltaS", 1, ok)>>, TRUE)
           c1 == DrawInto(g, c0, g.attachment1,
                          <<Term("deltaSMie", 1, ok)>>, TRUE)
       IN  /\ texContent' = c1
           /\ passes' = Append(passes,
                 PassRecord("deltaS", 1, g, Sample({"transmittanceTable"})))
           /\ gl' = [g EXCEPT !.attachment1 = "none", !.drawBuffers = 1]
    /\ SaveCpu({"deltaSRayleigh", "deltaSMie"})
    /\ pc' = "irradiance"
    /\ UNCHANGED <<cache, delCount, locals, config>>
    /\ UNCHANGED <<frameVars, otherVars>>

(* calculateIrradiance(): clears the irradiance table and renders the      *)
(* first-order term into it; it samples no table.                          *)
CalculateIrradiance ==
    /\ pc = "irradiance"
    /\ Pass("irradiance", 1,
            [gl EXCEPT !.attachment0 = "irradianceTable",
                       !.viewport = ViewportOf(
                           DeltaETableSize(config.textureScale))],
            {}, <<Term("irradiance", 1, TRUE)>>, TRUE, "inscattering")
    /\ UNCHANGED <<genCount, cpuTextures>>

(* calculateInscattering(deltaSRayleigh, deltaSMie): copies the            *)
(* first-order in-scattering into the in-scattering table.                 *)
CalculateInscattering ==
    /\ pc = "inscattering"
    /\ Pass("inscattering", 1,
            [gl EXCEPT !.attachment0 = "inScatteringTable",
                       !.viewport = ViewportOf(
                           TextureSize(config.textureScale))],
            {"deltaSRayleigh", "deltaSMie"},
            <<Term("inscattering", LastOrder(texContent["deltaSRayleigh"]),
                   SamplesValid({"deltaSRayleigh", "deltaSMie"}))>>,
            TRUE, "createDeltaJ")
    /\ UNCHANGED <<genCount, cpuTextures>>

(* A loop that stops one order early *)
LoopConditionShort(scatteringOrder) == scatteringOrder < LastScatteringOrder

(* The condition of the loop over the scattering orders *)
LoopCondition(scatteringOrder) == scatteringOrder <= LastScatteringOrder

LoopPc(scatteringOrder) ==
    IF LoopCondition(scatteringOrder) THEN "deltaJOrder" ELSE "restore"

(* Creates the deltaJ texture and enters the loop *)
CreateDeltaJ ==
    /\ pc = "createDeltaJ"
    /\ genCount' = GlGen({"deltaJ"})
    /\ locals' = [locals EXCEPT !.scatteringOrder = FirstScatteringOrder]
    /\ pc' = LoopPc(FirstScatteringOrder)
    /\ UNCHANGED <<gl, cache, texContent, delCount, passes, config,
                   cpuTextures>>
    /\ UNCHANGED <<frameVars, otherVars>>

(* calculateDeltaJ(scatteringOrder, ...) *)
CalculateDeltaJOrder ==
    /\ pc = "deltaJOrder"
    /\ LET reads == {"transmittanceTable", "deltaE", "deltaSRayleigh",
                     "deltaSMie"}
       IN Pass("deltaJ", locals.scatteringOrder,
               [gl EXCEPT !.attachment0 = "deltaJ",
                          !.viewport = ViewportOf(
                              TextureSize(config.textureScale))],
               reads,
               <<Term("deltaJ", LastOrder(texContent["deltaSRayleigh"]) + 1,
                      SamplesValid(reads))>>,
               FALSE, "deltaEOrder")
    /\ UNCHANGED <<genCount, cpuTextures>>

(* calculateDeltaE(scatteringOrder, ...) *)
CalculateDeltaEOrder ==
    /\ pc = "deltaEOrder"
    /\ LET reads == {"deltaSRayleigh", "deltaSMie"}
       IN Pass("deltaE", locals.scatteringOrder,
               [gl EXCEPT !.attachment0 = "deltaE",
                          !.viewport = ViewportOf(
                              DeltaETableSize(config.textureScale))],
               reads,
               <<Term("deltaE", LastOrder(texContent["deltaSRayleigh"]) + 1,
                      SamplesValid(reads))>>,
               FALSE, "deltaSOrder")
    /\ UNCHANGED <<genCount, cpuTextures>>

(* calculateDeltaS(scatteringOrder, ...) handed the deltaS Mie table *)
CalculateDeltaSOrderIntoMie ==
    /\ pc = "deltaSOrder"
    /\ LET reads == {"transmittanceTable", "deltaJ"}
       IN Pass("deltaS", locals.scatteringOrder,
               [gl EXCEPT !.attachment0 = "deltaSMie",
                          !.viewport = ViewportOf(
                              TextureSize(config.textureScale))],
               reads,
               <<Term("deltaS", LastOrder(texContent["deltaJ"]),
                      SamplesValid(reads))>>,
               FALSE, "enableBlend")
    /\ UNCHANGED <<genCount, cpuTextures>>

(* calculateDeltaS(scatteringOrder, ...): integrates deltaJ along the ray  *)
(* into the deltaS Rayleigh table.                                         *)
CalculateDeltaSOrder ==
    /\ pc = "deltaSOrder"
    /\ LET reads == {"transmittanceTable", "deltaJ"}
       IN Pass("deltaS", locals.scatteringOrder,
               [gl EXCEPT !.attachment0 = "deltaSRayleigh",
                          !.viewport = ViewportOf(
                              TextureSize(config.textureScale))],
               reads,
               <<Term("deltaS", LastOrder(texContent["deltaJ"]),
                      SamplesValid(reads))>>,
               FALSE, "enableBlend")
    /\ UNCHANGED <<genCount, cpuTextures>>

(* glEnable(GL_BLEND); glBlendEquationSeparate; glBlendFuncSeparate *)
EnableBlend ==
    /\ pc = "enableBlend"
    /\ gl' = [gl EXCEPT !.blend = [enabled |-> TRUE,
                                   equation |-> "GL_FUNC_ADD",
                                   func |-> <<"GL_ONE", "GL_ONE">>]]
    /\ pc' = "irradianceOrder"
    /\ UNCHANGED <<cache, texContent, genCount, delCount, locals, passes,
                   config, cpuTextures>>
    /\ UNCHANGED <<frameVars, otherVars>>

(* calculateIrradiance(scatteringOrder, ...): adds deltaE *)
CalculateIrradianceOrder ==
    /\ pc = "irradianceOrder"
    /\ Pass("irradiance", locals.scatteringOrder,
            [gl EXCEPT !.attachment0 = "irradianceTable",
                       !.viewport = ViewportOf(
                           DeltaETableSize(config.textureScale))],
            {"deltaE"}, texContent["deltaE"], FALSE, "inscatteringOrder")
    /\ UNCHANGED <<genCount, cpuTextures>>

(* calculateInscattering(scatteringOrder, ...): adds deltaS Rayleigh *)
CalculateInscatteringOrder ==
    /\ pc = "inscatteringOrder"
    /\ Pass("inscattering", locals.scatteringOrder,
            [gl EXCEPT !.attachment0 = "inScatteringTable",
                       !.viewport = ViewportOf(
                           TextureSize(config.textureScale))],
            {"deltaSRayleigh"}, texContent["deltaSRayleigh"], FALSE,
            "endIteration")
    /\ UNCHANGED <<genCount, cpuTextures>>

(* A loop body that leaves blending enabled *)
EndIterationKeepsBlend ==
    /\ pc = "endIteration"
    /\ locals' = [locals EXCEPT !.scatteringOrder = @ + 1]
    /\ pc' = LoopPc(locals.scatteringOrder + 1)
    /\ UNCHANGED <<gl, cache, texContent, genCount, delCount, passes, config,
                   cpuTextures>>
    /\ UNCHANGED <<frameVars, otherVars>>

(* glDisable(GL_BLEND) at the end of the loop body, then ++scatteringOrder *)
EndIteration ==
    /\ pc = "endIteration"
    /\ gl' = [gl EXCEPT !.blend.enabled = FALSE]
    /\ locals' = [locals EXCEPT !.scatteringOrder = @ + 1]
    /\ pc' = LoopPc(locals.scatteringOrder + 1)
    /\ UNCHANGED <<cache, texContent, genCount, delCount, passes, config,
                   cpuTextures>>
    /\ UNCHANGED <<frameVars, otherVars>>

(* A clean-up that forgets the deltaJ texture *)
DeletedByCalcLeak == (DeltaTables \ {"deltaJ"}) \cup CalcObjects

(* The objects calculateAtmosphereParameters deletes before it returns *)
DeletedByCalc == DeltaTables \cup CalcObjects

(* glDelete* of a texture frees its storage and detaches it *)
AfterDelete(objs, content) ==
    [t \in Textures |-> IF t \in objs THEN <<>> ELSE content[t]]

(* A clean-up that does not rebind the saved framebuffer *)
RestoreHostStateNoRebind(g, c, l) ==
    [g EXCEPT !.blend = c.blend,
              !.viewport = l.viewport,
              !.attachment0 = "none",
              !.vertexArray = "none",
              !.arrayBuffer = "none"]

(* The render state calculateAtmosphereParameters hands back:              *)
(* resetBlendState(), glBindFramebuffer(defaultFBO), setViewportState(),   *)
(* glBindVertexArray(0) after the quad and the framebuffer are deleted.    *)
RestoreHostState(g, c, l) ==
    [g EXCEPT !.blend = c.blend,
              !.boundFBO = l.defaultFBO,
              !.viewport = l.viewport,
              !.attachment0 = "none",
              !.vertexArray = "none",
              !.arrayBuffer = "none"]

(* The end of calculateAtmosphereParameters: resets the blend state,       *)
(* deletes the delta tables, rebinds the saved framebuffer, restores the   *)
(* viewport, deletes the quad and the calculation framebuffer.             *)
CalcRestore ==
    /\ pc = "restore"
    /\ delCount' = GlDelete(DeletedByCalc)
    /\ texContent' = AfterDelete(DeletedByCalc, texContent)
    /\ gl' = RestoreHostState(gl, cache, locals)
    /\ cache' = [cache EXCEPT !.viewport = locals.viewport]
    /\ pc' = "initialized"
    /\ UNCHANGED <<genCount, locals, passes, config, cpuTextures>>
    /\ UNCHANGED <<frameVars, otherVars>>

calcVars == <<gl, cache, texContent, genCount, delCount, locals, passes,
              config, cpuTextures>>

----------------------------------------------------------------------------
(* The per-frame handlers *)

(* What the scene holds for one shadow configuration in a frame: whether   *)
(* the source and the caster scene graph nodes exist, and whether the      *)
(* caster shadows the planet.                                              *)
SceneNodes ==
    { [source |-> FALSE, caster |-> TRUE, shadowing |-> FALSE],
      [source |-> TRUE, caster |-> FALSE, shadowing |-> FALSE],
      [source |-> TRUE, caster |-> TRUE, shadowing |-> FALSE],
      [source |-> TRUE, caster |-> TRUE, shadowing |-> TRUE] }

(* The loop over _shadowConfArray of preRaycast.  It returns from          *)
(* preRaycast at the first configuration whose source or caster node does  *)
(* not exist.  conf is the index of the configuration an entry was         *)
(* computed from, which the claims about the cache are judged by.          *)
RECURSIVE ShadowLoop(_, _, _, _)
ShadowLoop(i, confs, nodes, acc) ==
    IF i > Len(confs)
    THEN [confs |-> confs, shadows |-> acc, returned |-> FALSE]
    ELSE IF ~nodes[i].source
    THEN [confs |-> [confs EXCEPT ![i].printedSourceError = TRUE],
          shadows |-> acc, returned |-> TRUE]
    ELSE IF ~nodes[i].caster
    THEN [confs |-> [confs EXCEPT ![i].printedCasterError = TRUE],
          shadows |-> acc, returned |-> TRUE]
    ELSE ShadowLoop(i + 1, confs, nodes,
                    Append(acc, [conf |-> i,
                                 isShadowing |-> nodes[i].shadowing]))

(* The three activate / glBindTexture / setUniform triples that end        *)
(* preRaycast                                                              *)
BoundUnits == [u \in MemberTables |-> [assigned |-> TRUE, bound |-> u]]

BoundUniforms(u) ==
    [u EXCEPT !.transmittanceTexture = "transmittanceTable",
              !.irradianceTexture = "irradianceTable",
              !.inscatterTexture = "inScatteringTable"]

(* AtmosphereDeferredcaster::preRaycast.  inRange and inFrustum are the    *)
(* outcomes of the distance test and of isAtmosphereInFrustum.             *)
PreRaycast ==
    /\ pc = "initialized"
    /\ \E inRange \in BOOLEAN, inFrustum \in BOOLEAN,
          nodes \in [1..Len(shadowConfArray) -> SceneNodes] :
          IF inRange /\ inFrustum
          THEN LET r == ShadowLoop(1, shadowConfArray, nodes, <<>>)
                   u0 == [uniforms EXCEPT !.cullAtmosphere = 0]
               IN  /\ shadowConfArray' = r.confs
                   /\ shadowDataArrayCache' = r.shadows
                   /\ IF r.returned
                      THEN /\ uniforms' = u0
                           /\ units' = units
                      ELSE /\ uniforms' = BoundUniforms(
                                 [u0 EXCEPT !.hardShadows = "set"])
                           /\ units' = BoundUnits
          ELSE /\ uniforms' =
                     BoundUniforms([uniforms EXCEPT !.cullAtmosphere = 1])
               /\ units' = BoundUnits
               /\ UNCHANGED <<shadowConfArray, shadowDataArrayCache>>
    /\ pc' = "raycasting"
    /\ UNCHANGED <<calcVars, otherVars>>

(* AtmosphereDeferredcaster::postRaycast: deactivates the texture units *)
PostRaycast ==
    /\ pc = "raycasting"
    /\ units' = [u \in MemberTables |-> [units[u] EXCEPT !.assigned = FALSE]]
    /\ pc' = "initialized"
    /\ UNCHANGED <<shadowConfArray, shadowDataArrayCache, uniforms>>
    /\ UNCHANGED <<calcVars, otherVars>>

(* AtmosphereDeferredcaster::deinitialize *)
Deinitialize ==
    /\ pc = "initialized"
    /\ delCount' = GlDelete(MemberTables)
    /\ texContent' = AfterDelete(MemberTables, texContent)
    /\ pc' = "deinitialized"
    /\ UNCHANGED <<gl, cache, genCount, locals, passes, config, cpuTextures>>
    /\ UNCHANGED <<frameVars, otherVars>>

Next ==
    \/ Initialize
    \/ CalcSetup
    \/ CalculateTransmittance
    \/ CalculateDeltaE
    \/ CalculateDeltaS
    \/ CalculateIrradiance
    \/ CalculateInscattering
    \/ CreateDeltaJ
    \/ CalculateDeltaJOrder
    \/ CalculateDeltaEOrder
    \/ CalculateDeltaSOrder
    \/ EnableBlend
    \/ CalculateIrradianceOrder
    \/ CalculateInscatteringOrder
    \/ EndIteration
    \/ CalcRestore
    \/ PreRaycast
    \/ PostRaycast
    \/ Deinitialize

----------------------------------------------------------------------------
(* Fixed-point arithmetic.  Floating point values are modelled on integer  *)
(* grids; std::sqrt is the integer square root.                            *)

Abs(x) == IF x < 0 THEN -x ELSE x
Min(a, b) == IF a < b THEN a ELSE b
Max(a, b) == IF a > b THEN a ELSE b

RECURSIVE SqrtSearch(_, _, _)
SqrtSearch(n, lo, hi) ==
    IF lo >= hi THEN lo
    ELSE LET mid == (lo + hi + 1) \div 2
         IN  IF mid * mid <= n THEN SqrtSearch(n, mid, hi)
                               ELSE SqrtSearch(n, lo, mid - 1)

Sqrt(n) == IF n <= 0 THEN 0 ELSE SqrtSearch(n, 0, Min(n, 46340))

----------------------------------------------------------------------------
(* step3DTexture: the altitude r of a layer of the 3D tables.  Lengths are *)
(* in thousandths of the unit of Rg and Rt, so that the offsets 0.01 and   *)
(* -0.001 are the integers 10 and -1.                                      *)

EpsFirstLayer == 10
EpsLastLayer == -1

MaxThickness == 120
MaxRSamples == 4
PlanetRadii == {1000, 6000}

LayerEps(rSamples, layer) ==
    IF layer > 0
    THEN IF layer = rSamples - 1 THEN EpsLastLayer ELSE 0
    ELSE EpsFirstLayer

Step3DTextureR(Rg, Rt, rSamples, layer) ==
    LET planet2 == Rg * Rg
        diff == Rt * Rt - planet2
        \* ri * ri * diff with ri = layer / (rSamples - 1)
        ri2diff == (layer * layer * diff)
                       \div ((rSamples - 1) * (rSamples - 1))
    IN  Sqrt(planet2 + ri2diff) + LayerEps(rSamples, layer)

Step3DTextureDhdH(Rg, Rt, r) ==
    LET planet2 == Rg * Rg
        diff == Rt * Rt - planet2
        dh == Sqrt(r * r - planet2)
    IN  [dminT |-> Rt - r, dH |-> dh + Sqrt(diff), dminG |-> r - Rg,
         dh |-> dh]

NoStep3D == [Rg |-> 0, Rt |-> 0, rSamples |-> 0, layer |-> 0,
             radii |-> <<>>, dhdH |-> <<>>]

InitStep3D ==
    \E Rg \in PlanetRadii, t \in 1..MaxThickness, n \in 2..MaxRSamples :
        step3D = [Rg |-> Rg, Rt |-> Rg + t, rSamples |-> n, layer |-> 0,
                  radii |-> <<>>, dhdH |-> <<>>]

(* One iteration of  for (layer = 0; layer < rSamples; ++layer)  *)
Step3DTexture ==
    /\ step3D.layer < step3D.rSamples
    /\ LET r == Step3DTextureR(step3D.Rg, step3D.Rt, step3D.rSamples,
                               step3D.layer)
       IN step3D' = [step3D EXCEPT
              !.radii = Append(@, r),
              !.dhdH = Append(@, Step3DTextureDhdH(step3D.Rg, step3D.Rt, r)),
              !.layer = @ + 1]
    /\ UNCHANGED <<atmVars, integ, son, tel, sim>>

----------------------------------------------------------------------------
(* The numerical integrators opticalDepth (inside computeTransmittance)    *)
(* and inscatter.  Lengths are integers, a cosine mu is the grid value     *)
(* m / MuGrid, a position on the ray is kept as N times its value (so      *)
(* that x_i = i * b_a / N is exact), exp(-h / H) is the fixed-point value  *)
(* DensityOne / 2^(h / H), and a returned float is the exact fraction      *)
(* <<numerator, denominator>>.                                             *)

TransmittanceSteps == 500
InscatterIntegralSamples == 50
AtmEpsilon == 1
BelowHorizonDepth == 1000000000

MuGrid == 2
DensityOne == 64
TransmittanceOne == 4

(* Rg and Rt of the runs *)
Atmosphere == [Rg |-> 6, Rt |-> 10]

(* std::exp(-h / H) *)
ExpNeg(h, H) ==
    IF h >= 0 THEN DensityOne \div (2 ^ (h \div H))
              ELSE DensityOne * (2 ^ ((-h) \div H))

(* sqrt(r^2 + x^2 + 2 x r mu) for x = xN / N *)
RadiusAt(r, m, xN, N) ==
    Sqrt((r * r * N * N * MuGrid + xN * xN * MuGrid + 2 * xN * r * N * m)
             \div (N * N * MuGrid))

(* mu < cosZenithHorizon = -sqrt(1 - Rg^2 / r^2) *)
BelowHorizon(r, m, Rg) ==
    m < 0 /\ m * m * r * r > (r * r - Rg * Rg) * MuGrid * MuGrid

(* rayDistance(r, mu, Rt, Rg) *)
RayDistance(r, m, Rt, Rg) ==
    LET rmu == (r * m) \div MuGrid
        r2mu2 == (r * r * (m * m - MuGrid * MuGrid)) \div (MuGrid * MuGrid)
        rayDistanceAtmosphere ==
            -rmu + Sqrt(r2mu2 + (Rt + AtmEpsilon) * (Rt + AtmEpsilon))
        delta == r2mu2 + Rg * Rg
        rayDistanceGround == -rmu - Sqrt(delta)
    IN  IF delta >= 0 /\ rayDistanceGround >= 0
        THEN Min(rayDistanceAtmosphere, rayDistanceGround)
        ELSE rayDistanceAtmosphere

(* The sample y_ii of opticalDepth at x_i = i * deltaStep *)
OpticalDepthSample(r, m, H, b_a, i) ==
    ExpNeg(RadiusAt(r, m, i * b_a, TransmittanceSteps) - Atmosphere.Rg, H)

(* texture(): the texel of the transmittance table nearest to (u_mu, u_r). *)
(* The table has 2 x 2 texels; u_r = sqrt((r - Rg) / (Rt - Rg)) and u_mu   *)
(* grows with mu and passes 1/2 just below mu = 0.                         *)
TransmittanceTexture == <<<<1, 2>>, <<3, 4>>>>

TableTransmittance(r, m) ==
    LET row == IF 4 * (r - Atmosphere.Rg) >= Atmosphere.Rt - Atmosphere.Rg
               THEN 2 ELSE 1
        col == IF m >= 0 THEN 2 ELSE 1
    IN  TransmittanceTexture[row][col]

(* transmittance(tex, r, mu, d, Rg, Rt): T(x, d) = T(x, v) / T(d, v) *)
PathTransmittance(r, m, dN, N) ==
    LET ri == RadiusAt(r, m, dN, N)
        mui == IF ri = 0 THEN MuGrid
               ELSE (dN * MuGrid + r * m * N) \div (ri * N)
        res == IF m > 0
               THEN (TableTransmittance(r, m) * TransmittanceOne)
                        \div TableTransmittance(ri, mui)
               ELSE (TableTransmittance(ri, -mui) * TransmittanceOne)
                        \div TableTransmittance(r, -m)
    IN  Min(res, TransmittanceOne)

(* integrand(r, mu, muSun, nu, y, ...): the pair <<S_R, S_M>> at y = yN/N *)
Integrand(in, yN) ==
    LET N == InscatterIntegralSamples
        Rg == Atmosphere.Rg
        ri == Max(RadiusAt(in.r, in.mu, yN, N), Rg)
        muSun_i == (in.nu * yN + in.muSun * in.r * N) \div (ri * N)
        sunlit == ~BelowHorizon(ri, muSun_i, Rg)
        transmittanceY == PathTransmittance(in.r, in.mu, yN, N)
                              * TableTransmittance(ri, muSun_i)
    IN  IF sunlit
        THEN IF in.ozoneLayerEnabled
             THEN <<(ExpNeg(ri - Rg, in.HO) + ExpNeg(ri - Rg, in.HR))
                        * transmittanceY,
                    ExpNeg(ri - Rg, in.HM) * transmittanceY>>
             ELSE <<ExpNeg(ri - Rg, in.HR) * transmittanceY,
                    ExpNeg(ri - Rg, in.HM) * transmittanceY>>
        ELSE <<0, 0>>

InitOpticalDepth ==
    \E r \in Atmosphere.Rg..Atmosphere.Rt, m \in (-MuGrid)..MuGrid,
       H \in {1, 2} :
        integ = [fn |-> "opticalDepth", pc |-> "call",
                 in |-> [r |-> r, mu |-> m, H |-> H],
                 b_a |-> 0, i |-> 0, y_i |-> <<0>>, accumulation |-> <<0>>,
                 result |-> <<>>]

InitInscatter ==
    \E r \in {Atmosphere.Rg, Atmosphere.Rg + 2, Atmosphere.Rt},
       m \in (-MuGrid)..MuGrid, ms \in {-1, 0, MuGrid}, nu \in {-MuGrid, 1},
       ozone \in BOOLEAN :
        integ = [fn |-> "inscatter", pc |-> "call",
                 in |-> [r |-> r, mu |-> m, muSun |-> ms, nu |-> nu,
                         ozoneLayerEnabled |-> ozone, HO |-> 3, HM |-> 1,
                         HR |-> 2, betaRayleigh |-> 5,
                         betaMieScattering |-> 3],
                 b_a |-> 0, i |-> 0, y_i |-> <<0, 0>>,
                 accumulation |-> <<0, 0>>, result |-> <<>>]

(* opticalDepth up to its loop: the horizon test, b_a and the first sample *)
OpticalDepthEnter ==
    /\ integ.fn = "opticalDepth" /\ integ.pc = "call"
    /\ IF BelowHorizon(integ.in.r, integ.in.mu, Atmosphere.Rg)
       THEN integ' = [integ EXCEPT !.pc = "done",
                                   !.result = <<<<BelowHorizonDepth, 1>>>>]
       ELSE integ' = [integ EXCEPT
                !.pc = "loop",
                !.b_a = RayDistance(integ.in.r, integ.in.mu, Atmosphere.Rt,
                                    Atmosphere.Rg),
                !.y_i = <<ExpNeg(integ.in.r - Atmosphere.Rg, integ.in.H)>>,
                !.accumulation = <<0>>,
                !.i = 1]
    /\ UNCHANGED <<atmVars, step3D, son, tel, sim>>

(* A loop body that keeps the first sample as the previous one *)
OpticalDepthStepStale ==
    /\ integ.fn = "opticalDepth" /\ integ.pc = "loop"
    /\ integ.i <= TransmittanceSteps
    /\ LET y_ii == OpticalDepthSample(integ.in.r, integ.in.mu, integ.in.H,
                                      integ.b_a, integ.i)
       IN integ' = [integ EXCEPT
                !.accumulation = <<@[1] + (y_ii + integ.y_i[1])>>,
                !.i = @ + 1]
    /\ UNCHANGED <<atmVars, step3D, son, tel, sim>>

(* One iteration of the loop of opticalDepth *)
OpticalDepthStep ==
    /\ integ.fn = "opticalDepth" /\ integ.pc = "loop"
    /\ integ.i <= TransmittanceSteps
    /\ LET y_ii == OpticalDepthSample(integ.in.r, integ.in.mu, integ.in.H,
                                      integ.b_a, integ.i)
       IN integ' = [integ EXCEPT
                !.accumulation = <<@[1] + (y_ii + integ.y_i[1])>>,
                !.y_i = <<y_ii>>,
                !.i = @ + 1]
    /\ UNCHANGED <<atmVars, step3D, son, tel, sim>>

(* return accumulation * (b_a / (2.0 * TransmittanceSteps)) *)
OpticalDepthReturn ==
    /\ integ.fn = "opticalDepth" /\ integ.pc = "loop"
    /\ integ.i > TransmittanceSteps
    /\ integ' = [integ EXCEPT
            !.pc = "done",
            !.result = <<<<integ.accumulation[1] * integ.b_a,
                           2 * TransmittanceSteps>>>>]
    /\ UNCHANGED <<atmVars, step3D, son, tel, sim>>

(* inscatter up to its loop: rayDist and the integrand at y = 0 *)
InscatterEnter ==
    /\ integ.fn = "inscatter" /\ integ.pc = "call"
    /\ integ' = [integ EXCEPT
            !.pc = "loop",
            !.b_a = RayDistance(integ.in.r, integ.in.mu, Atmosphere.Rt,
                                Atmosphere.Rg),
            !.y_i = Integrand(integ.in, 0),
            !.accumulation = <<0, 0>>,
            !.i = 1]
    /\ UNCHANGED <<atmVars, step3D, son, tel, sim>>

(* One iteration of the loop of inscatter *)
InscatterStep ==
    /\ integ.fn = "inscatter" /\ integ.pc = "loop"
    /\ integ.i <= InscatterIntegralSamples
    /\ LET S_j == Integrand(integ.in, integ.i * integ.b_a)
       IN integ' = [integ EXCEPT
                !.accumulation = <<@[1] + (integ.y_i[1] + S_j[1]),
                                   @[2] + (integ.y_i[2] + S_j[2])>>,
                !.y_i = S_j,
                !.i = @ + 1]
    /\ UNCHANGED <<atmVars, step3D, son, tel, sim>>

(* S_R *= betaRayleigh * (rayDist / (2 N)); S_M likewise; return *)
InscatterReturn ==
    /\ integ.fn = "inscatter" /\ integ.pc = "loop"
    /\ integ.i > InscatterIntegralSamples
    /\ integ' = [integ EXCEPT
            !.pc = "done",
            !.result =
                <<<<integ.accumulation[1] * integ.in.betaRayleigh
                        * integ.b_a, 2 * InscatterIntegralSamples>>,
                  <<integ.accumulation[2] * integ.in.betaMieScattering
                        * integ.b_a, 2 * InscatterIntegralSamples>>>>]
    /\ UNCHANGED <<atmVars, step3D, son, tel, sim>>

----------------------------------------------------------------------------
(* CameraSonification and TimeSonification.  The camera moves along one    *)
(* axis and its rotation is the pair <<w, x>> of a quaternion; positions,  *)
(* times and precisions are integers.  A speed is kept as SpeedScale times *)
(* its value and a time speed as TimeSpeedScale times its value, so that   *)
(* the divisions by the unit and by the frame time are exact.              *)

MaxPosition == 2
Positions == 0..MaxPosition
Rotations == {0, 2} \X {0, 1, 2}
FrameTimes == {0, 1, 2}
DistanceUnits == {"Meter", "Kilometer"}
DeltaTimes == {0, 1, 2}
MaxJ2000Seconds == 2
TimeUnits == {"Second", "Minute"}

(* The metres in a distance unit, as convertMeters divides by them *)
ToMeter(unit) == IF unit = "Kilometer" THEN 1000 ELSE 1

(* The seconds in a time unit, as convertTime divides by them *)
ToSecond(unit) == IF unit = "Minute" THEN 60 ELSE 1

SpeedScale == 2 * ToMeter("Kilometer")
TimeSpeedScale == ToSecond("Minute")

(* convertMeters(distanceMoved, unit) / averageFrameTime, times SpeedScale *)
CameraSpeed(distanceMoved, unit, averageFrameTime) ==
    (distanceMoved * SpeedScale) \div (ToMeter(unit) * averageFrameTime)

(* convertTime(deltaTime, TimeUnit::Second, unit), times TimeSpeedScale *)
TimeSpeed(deltaTime, unit) == (deltaTime * TimeSpeedScale) \div ToSecond(unit)

NoSon == [object |-> "none", phase |-> "idle"]

InitCameraSonification ==
    \E enabled \in BOOLEAN, p \in Positions, ft \in FrameTimes :
        son = [object |-> "camera", enabled |-> enabled, phase |-> "idle",
               outbox |-> <<>>,
               env |-> [position |-> p, rotation |-> <<0, 0>>,
                        averageDeltaTime |-> ft, unit |-> "Kilometer"],
               cameraPosition |-> 0, cameraRotation |-> <<0, 0>>,
               cameraSpeed |-> 0,
               precision |-> [position |-> 1, rotation |-> 1, speed |-> 1]]

InitTimeSonification ==
    \E enabled \in BOOLEAN, dt \in DeltaTimes :
        son = [object |-> "time", enabled |-> enabled, phase |-> "idle",
               outbox |-> <<>>,
               env |-> [deltaTime |-> dt, j2000Seconds |-> 0,
                        unit |-> "Second"],
               timeSpeed |-> 0, currentTime |-> 0,
               precision |-> [time |-> 1]]

(* The scene and the user between two update calls *)
MoveCamera ==
    /\ son.object = "camera"
    /\ \E p \in Positions, q \in Rotations :
        /\ <<p, q>> # <<son.env.position, son.env.rotation>>
        /\ son' = [son EXCEPT !.env.position = p, !.env.rotation = q,
                              !.phase = "idle"]
    /\ UNCHANGED <<atmVars, step3D, integ, tel, sim>>

SetFrameTime ==
    /\ son.object = "camera"
    /\ \E ft \in FrameTimes \ {son.env.averageDeltaTime} :
        son' = [son EXCEPT !.env.averageDeltaTime = ft, !.phase = "idle"]
    /\ UNCHANGED <<atmVars, step3D, integ, tel, sim>>

SetDistanceUnit ==
    /\ son.object = "camera"
    /\ \E u \in DistanceUnits \ {son.env.unit} :
        son' = [son EXCEPT !.env.unit = u, !.phase = "idle"]
    /\ UNCHANGED <<atmVars, step3D, integ, tel, sim>>

AdvanceTime ==
    /\ son.object = "time"
    /\ \E dt \in DeltaTimes, t \in 0..MaxJ2000Seconds :
        /\ <<dt, t>> # <<son.env.deltaTime, son.env.j2000Seconds>>
        /\ son' = [son EXCEPT !.env.deltaTime = dt, !.env.j2000Seconds = t,
                              !.phase = "idle"]
    /\ UNCHANGED <<atmVars, step3D, integ, tel, sim>>

SetTimeUnit ==
    /\ son.object = "time"
    /\ \E u \in TimeUnits \ {son.env.unit} :
        son' = [son EXCEPT !.env.unit = u, !.phase = "idle"]
    /\ UNCHANGED <<atmVars, step3D, integ, tel, sim>>

SetEnabled ==
    /\ son.object \in {"camera", "time"}
    /\ son' = [son EXCEPT !.enabled = ~@, !.phase = "idle"]
    /\ UNCHANGED <<atmVars, step3D, integ, tel, sim>>

(* CameraSonification::getData: the members after the call and its result *)
CameraGetData(s) ==
    LET distanceMoved == Abs(s.cameraPosition - s.env.position)
        rotationAngleDifference ==
            Abs(s.cameraRotation[1] - s.env.rotation[1])
        rotationAxisDifference ==
            Abs(s.cameraRotation[2] - s.env.rotation[2])
        hasFps == Abs(s.env.averageDeltaTime) > 0
        cameraSpeed ==
            IF hasFps
            THEN CameraSpeed(distanceMoved, s.env.unit,
                             s.env.averageDeltaTime)
            ELSE 0
        newPosition == distanceMoved > s.precision.position
        newRotation ==
            \/ rotationAngleDifference > s.precision.rotation
            \/ rotationAxisDifference > s.precision.rotation
        newSpeed ==
            /\ hasFps
            /\ Abs(s.cameraSpeed - cameraSpeed)
                   > s.precision.speed * SpeedScale
    IN  [cameraPosition |->
             IF newPosition THEN s.env.position ELSE s.cameraPosition,
         cameraRotation |->
             IF newRotation THEN s.env.rotation ELSE s.cameraRotation,
         cameraSpeed |-> IF newSpeed THEN cameraSpeed ELSE s.cameraSpeed,
         shouldSendData |-> newPosition \/ newRotation \/ newSpeed]

(* The message CameraSonification::sendData hands to the connection *)
CameraMessage(d, unit) ==
    [label |-> "/Camera",
     data |-> <<d.cameraPosition, d.cameraRotation, d.cameraSpeed, unit>>]

(* An update that does not look at _enabled *)
CameraUpdateWhileDisabled ==
    /\ son.object = "camera"
    /\ LET d == CameraGetData(son)
       IN son' = [son EXCEPT
                !.cameraPosition = d.cameraPosition,
                !.cameraRotation = d.cameraRotation,
                !.cameraSpeed = d.cameraSpeed,
                !.outbox = IF d.shouldSendData
                           THEN <<CameraMessage(d, son.env.unit)>>
                           ELSE <<>>,
                !.phase = "updated"]
    /\ UNCHANGED <<atmVars, step3D, integ, tel, sim>>

(* CameraSonification::update; outbox holds what this call sent *)
CameraUpdate ==
    /\ son.object = "camera"
    /\ IF ~son.enabled
       THEN son' = [son EXCEPT !.outbox = <<>>, !.phase = "updated"]
       ELSE LET d == CameraGetData(son)
            IN son' = [son EXCEPT
                     !.cameraPosition = d.cameraPosition,
                     !.cameraRotation = d.cameraRotation,
                     !.cameraSpeed = d.cameraSpeed,
                     !.outbox = IF d.shouldSendData
                                THEN <<CameraMessage(d, son.env.unit)>>
                                ELSE <<>>,
                     !.phase = "updated"]
    /\ UNCHANGED <<atmVars, step3D, integ, tel, sim>>

(* TimeSonification::getData: the members after the call and its result *)
TimeGetData(s) ==
    LET timeSpeed == TimeSpeed(s.env.deltaTime, s.env.unit)
        currentTime == s.env.j2000Seconds
        newSpeed == Abs(s.timeSpeed - timeSpeed)
                        > s.precision.time * TimeSpeedScale
        newTime == Abs(s.currentTime - currentTime) > s.precision.time
    IN  [timeSpeed |-> IF newSpeed THEN timeSpeed ELSE s.timeSpeed,
         currentTime |-> IF newTime THEN currentTime ELSE s.currentTime,
         shouldSendData |-> newSpeed \/ newTime]

(* The message TimeSonification::sendData hands to the connection *)
TimeMessage(d, unit) ==
    [label |-> "/Time", data |-> <<d.timeSpeed, unit, d.currentTime>>]

(* TimeSonification::update; outbox holds what this call sent *)
TimeUpdate ==
    /\ son.object = "time"
    /\ IF ~son.enabled
       THEN son' = [son EXCEPT !.outbox = <<>>, !.phase = "updated"]
       ELSE LET d == TimeGetData(son)
            IN son' = [son EXCEPT
                     !.timeSpeed = d.timeSpeed,
                     !.currentTime = d.currentTime,
                     !.outbox = IF d.shouldSendData
                                THEN <<TimeMessage(d, son.env.unit)>>
                                ELSE <<>>,
                     !.phase = "updated"]
    /\ UNCHANGED <<atmVars, step3D, integ, tel, sim>>

----------------------------------------------------------------------------
(* TelemetryModule: the main thread (internalInitialize, the               *)
(* postSyncPreDraw callback, property changes, internalDeinitialize) and   *)
(* the update thread running TelemetryModule::update.  A step is one       *)
(* access to what the two threads share: _isRunning, syncToMain, _enabled  *)
(* and the scene.                                                          *)

MaxFrames == 2
MaxIterations == MaxFrames + 2

(* What the status check of update() reads, from no scene to a ready one *)
SceneStages == <<"noScene", "initializing", "emptyRoot", "noCamera",
                 "cameraAtOrigin", "ready">>

NoTel == [main |-> "none", thread |-> "none"]

InitTelemetry ==
    \E master \in BOOLEAN, enabled \in BOOLEAN :
        tel = [isMaster |-> master,
               main |-> "constructed",
               thread |-> "notStarted",
               isRunning |-> FALSE,
               callbackRegistered |-> FALSE,
               enabled |-> enabled,
               enabledWrite |-> <<>>,
               sceneStage |-> 1,
               \* locals of update()
               scene |-> FALSE, camera |-> FALSE, isInitialized |-> FALSE,
               \* what the runs are judged by
               wake |-> "none", signals |-> 0, iterations |-> 0,
               enabledAtCheck |-> {}, observedReady |-> FALSE,
               updateCalls |-> 0]

(* syncToMain.notify_one(): wakes the update thread if it is waiting *)
NotifyOne(t) ==
    [t EXCEPT !.thread = IF @ = "waiting" THEN "notified" ELSE @,
              !.signals = @ + 1]

(* TelemetryModule::internalInitialize *)
InternalInitialize ==
    /\ tel.main = "constructed"
    /\ tel' = IF tel.isMaster
              THEN [tel EXCEPT !.main = "running", !.isRunning = TRUE,
                               !.thread = "loopTest",
                               !.callbackRegistered = TRUE]
              ELSE [tel EXCEPT !.main = "running"]
    /\ UNCHANGED <<atmVars, step3D, integ, son, sim>>

(* The postSyncPreDraw callback: a new frame is starting *)
PostSyncPreDraw ==
    /\ tel.main = "running" /\ tel.callbackRegistered
    /\ tel.signals < MaxFrames
    /\ tel' = NotifyOne(tel)
    /\ UNCHANGED <<atmVars, step3D, integ, son, sim>>

(* The main thread starts to write the _enabled property *)
SetEnabledBegin ==
    /\ tel.main = "running" /\ tel.enabledWrite = <<>>
    /\ tel' = [tel EXCEPT !.enabledWrite = <<~tel.enabled>>]
    /\ UNCHANGED <<atmVars, step3D, integ, son, sim>>

(* The write of _enabled has completed *)
SetEnabledEnd ==
    /\ tel.main = "running" /\ tel.enabledWrite # <<>>
    /\ tel' = [tel EXCEPT !.enabled = tel.enabledWrite[1],
                          !.enabledWrite = <<>>]
    /\ UNCHANGED <<atmVars, step3D, integ, son, sim>>

(* The engine loads the scene: one stage further *)
SceneProgress ==
    /\ tel.main = "running" /\ tel.sceneStage < Len(SceneStages)
    /\ tel' = [tel EXCEPT !.sceneStage = @ + 1]
    /\ UNCHANGED <<atmVars, step3D, integ, son, sim>>

(* internalDeinitialize: _isRunning = false *)
DeinitializeStop ==
    /\ tel.main = "running" /\ tel.enabledWrite = <<>>
    /\ tel' = [tel EXCEPT !.main = "stopped", !.isRunning = FALSE]
    /\ UNCHANGED <<atmVars, step3D, integ, son, sim>>

(* internalDeinitialize: syncToMain.notify_one() *)
DeinitializeNotify ==
    /\ tel.main = "stopped"
    /\ tel' = [NotifyOne(tel) EXCEPT !.main = "joining"]
    /\ UNCHANGED <<atmVars, step3D, integ, son, sim>>

(* internalDeinitialize: _updateThread.join().  join of a thread that was  *)
(* never started throws std::system_error; otherwise it returns once the   *)
(* thread has left update().                                               *)
DeinitializeJoin ==
    /\ tel.main = "joining"
    /\ \/ /\ tel.thread = "notStarted"
          /\ tel' = [tel EXCEPT !.main = "joinThrew"]
       \/ /\ tel.thread = "exited"
          /\ tel' = [tel EXCEPT !.main = "deinitialized"]
    /\ UNCHANGED <<atmVars, step3D, integ, son, sim>>

(* while (isRunning) { std::unique_lock lk(mutexLock); *)
UpdateLoopTest ==
    /\ tel.thread = "loopTest"
    /\ tel' = [tel EXCEPT !.thread = IF tel.isRunning THEN "locked"
                                                       ELSE "exited"]
    /\ UNCHANGED <<atmVars, step3D, integ, son, sim>>

(* syncToMain.wait(lk): the thread starts to wait *)
UpdateWait ==
    /\ tel.thread = "locked"
    /\ tel' = [tel EXCEPT !.thread = "waiting"]
    /\ UNCHANGED <<atmVars, step3D, integ, son, sim>>

(* wait returns after a notification *)
UpdateWake ==
    /\ tel.thread = "notified"
    /\ tel' = [tel EXCEPT !.thread = "woken", !.wake = "notified",
                          !.iterations = @ + 1, !.updateCalls = 0]
    /\ UNCHANGED <<atmVars, step3D, integ, son, sim>>

(* wait returns without a notification, as condition_variable::wait may *)
UpdateSpuriousWake ==
    /\ tel.thread = "waiting"
    /\ tel.iterations < MaxIterations
    /\ tel' = [tel EXCEPT !.thread = "woken", !.wake = "spurious",
                          !.iterations = @ + 1, !.updateCalls = 0]
    /\ UNCHANGED <<atmVars, step3D, integ, son, sim>>

(* The values a read of _enabled can return: the main thread may be in the *)
(* middle of writing it                                                    *)
EnabledValues(t) ==
    IF t.enabledWrite = <<>> THEN {t.enabled}
                             ELSE {t.enabled, t.enabledWrite[1]}

(* An iteration that does not look at _enabled *)
UpdateCheckEnabledSkipped ==
    /\ tel.thread = "woken"
    /\ tel' = [tel EXCEPT !.enabledAtCheck = EnabledValues(tel),
                          !.thread = "checkStatus"]
    /\ UNCHANGED <<atmVars, step3D, integ, son, sim>>

(* if (!_enabled) { sleep_for(1 s); continue; } *)
UpdateCheckEnabled ==
    /\ tel.thread = "woken"
    /\ \E enabled \in EnabledValues(tel) :
        tel' = [tel EXCEPT !.enabledAtCheck = EnabledValues(tel),
                           !.thread = IF enabled THEN "checkStatus"
                                                 ELSE "sleeping"]
    /\ UNCHANGED <<atmVars, step3D, integ, son, sim>>

(* The sleep of a disabled module is over: continue *)
UpdateSleepDone ==
    /\ tel.thread = "sleeping"
    /\ tel' = [tel EXCEPT !.thread = "loopTest"]
    /\ UNCHANGED <<atmVars, step3D, integ, son, sim>>

(* if (!isInitialized) { find the scene and the camera, check the status } *)
UpdateCheckStatus ==
    /\ tel.thread = "checkStatus"
    /\ IF tel.isInitialized
       THEN tel' = [tel EXCEPT !.thread = "process"]
       ELSE LET scene == tel.scene \/ tel.sceneStage > 1
                camera == tel.camera \/ (scene /\ tel.sceneStage > 4)
                ready == /\ scene
                         /\ tel.sceneStage > 2
                         /\ tel.sceneStage > 3
                         /\ camera
                         /\ tel.sceneStage > 5
            IN tel' = [tel EXCEPT
                    !.scene = scene, !.camera = camera,
                    !.isInitialized = ready,
                    !.observedReady =
                        @ \/ SceneStages[tel.sceneStage] = "ready",
                    !.thread = "process"]
    /\ UNCHANGED <<atmVars, step3D, integ, son, sim>>

(* if (isInitialized) { telemetry->update(camera) for every telemetry } *)
UpdateProcess ==
    /\ tel.thread = "process"
    /\ tel' = [tel EXCEPT
            !.updateCalls = IF tel.isInitialized THEN 1 ELSE 0,
            !.thread = "loopTest"]
    /\ UNCHANGED <<atmVars, step3D, integ, son, sim>>

----------------------------------------------------------------------------
(* SoftwareIntegrationModule: the main thread (start, stop), the server    *)
(* thread (handleNewPeers), the event-loop thread (eventLoop,              *)
(* handlePeerMessage, disconnect) and one handler thread per peer          *)
(* (handlePeer).  An access to _peers made without _peerListMutex takes    *)
(* two steps, so that other threads can run while it is in progress; an    *)
(* access inside the critical section of peer() is one step.               *)

MaxPeers == 2
MaxQueue == 2
PeerIds == 1..MaxPeers

NoSim == [kind |-> "none", main |-> "none"]

InitPeers ==
    sim = [kind |-> "peers",
           main |-> "constructed",
           shouldStop |-> FALSE,
           serverOpen |-> FALSE,
           server |-> "notStarted",
           eventLoop |-> "notStarted",
           current |-> <<>>,
           nextConnectionId |-> 1,
           emplacing |-> 0,
           peers |-> {},
           thread |-> [id \in PeerIds |-> "notStarted"],
           connection |-> [id \in PeerIds |-> "none"],
           incoming |-> <<>>,
           accessing |-> {},
           \* what the runs are judged by
           unlockedAccesses |-> {},
           lookupOverlapped |-> FALSE,
           exitedBy |-> [id \in PeerIds |-> "none"],
           pushed |-> [id \in PeerIds |-> 0],
           handled |-> {},
           joined |-> {}]

(* peer(id): find under _peerListMutex; notes an access in progress *)
PeerLookup(t) ==
    [t EXCEPT !.lookupOverlapped = @ \/ t.accessing # {}]

(* SoftwareIntegrationModule::start *)
Start ==
    /\ sim.kind = "peers" /\ sim.main = "constructed"
    /\ sim' = [sim EXCEPT !.main = "running", !.serverOpen = TRUE,
                          !.server = "loopTest", !.eventLoop = "loopTest"]
    /\ UNCHANGED <<atmVars, step3D, integ, son, tel>>

(* stop: _shouldStop = true; _socketServer.close() *)
Stop ==
    /\ sim.kind = "peers" /\ sim.main = "running"
    /\ sim' = [sim EXCEPT !.main = "joinServer", !.shouldStop = TRUE,
                          !.serverOpen = FALSE]
    /\ UNCHANGED <<atmVars, step3D, integ, son, tel>>

(* stop: _serverThread.join() *)
StopJoinServer ==
    /\ sim.kind = "peers" /\ sim.main = "joinServer"
    /\ sim.server = "exited"
    /\ sim' = [sim EXCEPT !.main = "joinEventLoop"]
    /\ UNCHANGED <<atmVars, step3D, integ, son, tel>>

(* stop: _eventLoopThread.join(); return *)
StopJoinEventLoop ==
    /\ sim.kind = "peers" /\ sim.main = "joinEventLoop"
    /\ sim.eventLoop = "exited"
    /\ sim' = [sim EXCEPT !.main = "stopped"]
    /\ UNCHANGED <<atmVars, step3D, integ, son, tel>>

(* handleNewPeers: while (!_shouldStop) *)
ServerLoopTest ==
    /\ sim.kind = "peers" /\ sim.server = "loopTest"
    /\ sim' = [sim EXCEPT !.server = IF sim.shouldStop THEN "exited"
                                                       ELSE "await"]
    /\ UNCHANGED <<atmVars, step3D, integ, son, tel>>

(* handleNewPeers: awaitPendingTcpSocket returns a socket of a new client, *)
(* or nothing once the server is closed; _peers.emplace begins             *)
ServerAwait ==
    /\ sim.kind = "peers" /\ sim.server = "await"
    /\ \/ /\ ~sim.serverOpen
          /\ sim' = [sim EXCEPT !.server = "exited"]
       \/ /\ sim.serverOpen /\ sim.nextConnectionId <= MaxPeers
          /\ sim' = [sim EXCEPT
                  !.server = "emplace",
                  !.emplacing = sim.nextConnectionId,
                  !.nextConnectionId = @ + 1,
                  !.connection[sim.nextConnectionId] = "connected",
                  !.accessing = @ \cup {"server"},
                  !.unlockedAccesses = @ \cup {"emplace"}]
    /\ UNCHANGED <<atmVars, step3D, integ, son, tel>>

(* handleNewPeers: _peers.emplace ends; the handler thread is started *)
ServerEmplace ==
    /\ sim.kind = "peers" /\ sim.server = "emplace"
    /\ sim' = [sim EXCEPT
            !.server = "loopTest",
            !.peers = @ \cup {sim.emplacing},
            !.thread[sim.emplacing] = "loopTest",
            !.emplacing = 0,
            !.accessing = @ \ {"server"}]
    /\ UNCHANGED <<atmVars, step3D, integ, son, tel>>

(* The client goes away or the network fails *)
ConnectionLost ==
    /\ sim.kind = "peers"
    /\ \E id \in PeerIds :
        /\ sim.connection[id] = "connected"
        /\ sim' = [sim EXCEPT !.connection[id] = "lost"]
    /\ UNCHANGED <<atmVars, step3D, integ, son, tel>>

(* handlePeer: while (!_shouldStop) *)
PeerLoopTest(id) ==
    /\ sim.thread[id] = "loopTest"
    /\ sim' = IF sim.shouldStop
              THEN [sim EXCEPT !.thread[id] = "exited",
                               !.exitedBy[id] = "stop"]
              ELSE [sim EXCEPT !.thread[id] = "lookup"]

(* handlePeer: p = peer(id); if (!p) return *)
PeerFind(id) ==
    /\ sim.thread[id] = "lookup"
    /\ sim' = IF id \in sim.peers
              THEN [PeerLookup(sim) EXCEPT !.thread[id] = "check"]
              ELSE [PeerLookup(sim) EXCEPT !.thread[id] = "exited",
                                           !.exitedBy[id] = "notFound"]

(* handlePeer: if (!p->connection.isConnectedOrConnecting()) return *)
PeerCheck(id) ==
    /\ sim.thread[id] = "check"
    /\ sim' = IF sim.connection[id] = "connected"
              THEN [sim EXCEPT !.thread[id] = "receive"]
              ELSE [sim EXCEPT !.thread[id] = "exited",
                               !.exitedBy[id] = "notConnected"]

(* handlePeer: receiveMessage returns a message, which is pushed, or       *)
(* throws SoftwareConnectionLostError: a Disconnection is pushed; return   *)
PeerReceive(id) ==
    /\ sim.thread[id] = "receive"
    /\ \/ /\ sim.connection[id] = "connected"
          /\ Len(sim.incoming) < MaxQueue
          /\ sim' = [sim EXCEPT
                  !.incoming = Append(@, [peerId |-> id,
                                          type |-> "Connection"]),
                  !.thread[id] = "loopTest"]
       \/ /\ sim.connection[id] # "connected"
          /\ sim' = [sim EXCEPT
                  !.incoming = Append(@, [peerId |-> id,
                                          type |-> "Disconnection"]),
                  !.pushed[id] = @ + 1,
                  !.thread[id] = "exited",
                  !.exitedBy[id] = "lost"]

(* SoftwareIntegrationModule::handlePeer, one step of the thread of a peer *)
HandlePeer ==
    /\ sim.kind = "peers"
    /\ \E id \in PeerIds :
        \/ PeerLoopTest(id)
        \/ PeerFind(id)
        \/ PeerCheck(id)
        \/ PeerReceive(id)
    /\ UNCHANGED <<atmVars, step3D, integ, son, tel>>

(* eventLoop: while (!_shouldStop) { if (!empty) pm = pop(); ... } *)
EventLoopTest ==
    /\ sim.kind = "peers" /\ sim.eventLoop = "loopTest"
    /\ \/ /\ sim.shouldStop
          /\ sim' = [sim EXCEPT !.eventLoop = "exited"]
       \/ /\ ~sim.shouldStop /\ sim.incoming # <<>>
          /\ sim' = [sim EXCEPT !.eventLoop = "handle",
                                !.current = <<Head(sim.incoming)>>,
                                !.incoming = Tail(@)]
    /\ UNCHANGED <<atmVars, step3D, integ, son, tel>>

(* handlePeerMessage: peerPtr = peer(peerId); switch (messageType); for a  *)
(* Disconnection, disconnect of that peer up to connection.disconnect()   *)
HandlePeerMessage ==
    /\ sim.kind = "peers" /\ sim.eventLoop = "handle"
    /\ LET pm == sim.current[1]
       IN  IF pm.type = "Disconnection"
           THEN sim' = [PeerLookup(sim) EXCEPT
                    !.eventLoop = "join",
                    !.connection[pm.peerId] = "disconnected"]
           ELSE sim' = [PeerLookup(sim) EXCEPT !.eventLoop = "loopTest",
                                               !.current = <<>>]
    /\ UNCHANGED <<atmVars, step3D, integ, son, tel>>

(* disconnect: peer.thread.join(); _peers.erase begins *)
DisconnectJoin ==
    /\ sim.kind = "peers" /\ sim.eventLoop = "join"
    /\ sim.thread[sim.current[1].peerId] = "exited"
    /\ sim' = [sim EXCEPT
            !.eventLoop = "erase",
            !.joined = @ \cup {sim.current[1].peerId},
            !.accessing = @ \cup {"eventLoop"},
            !.unlockedAccesses = @ \cup {"erase"}]
    /\ UNCHANGED <<atmVars, step3D, integ, son, tel>>

(* disconnect: _peers.erase(peer.id) ends; back in eventLoop *)
DisconnectErase ==
    /\ sim.kind = "peers" /\ sim.eventLoop = "erase"
    /\ sim' = [sim EXCEPT
            !.eventLoop = "loopTest",
            !.peers = @ \ {sim.current[1].peerId},
            !.handled = @ \cup {sim.current[1].peerId},
            !.current = <<>>,
            !.accessing = @ \ {"eventLoop"}]
    /\ UNCHANGED <<atmVars, step3D, integ, son, tel>>

----------------------------------------------------------------------------
(* SoftwareIntegrationModule: _onceNodeExistsCallbacks, a map from the     *)
(* identifier of a node to the callback that subscribes to it.  The        *)
(* event-loop thread inserts (handlePeerMessage, ReadPointData) and the    *)
(* main thread traverses and erases (preSyncUpdate); neither takes a lock. *)
(* An insertion that overlaps an erase is a data race of two writers on    *)
(* the map: the map may lose entries by it.                                *)

MaxNodes == 2
MaxRegistrations == 3
NodeIds == 1..MaxNodes

InitCallbacks ==
    sim = [kind |-> "callbacks",
           main |-> "idle",
           eventLoop |-> "idle",
           callbacks |-> {},
           it |-> 0,
           emplacing |-> 0,
           raced |-> FALSE,
           requested |-> {},
           nodes |-> {},
           registrations |-> 0,
           \* what the runs are judged by
           waiting |-> {},
           due |-> {},
           missed |-> FALSE,
           invokedWithoutNode |-> FALSE,
           invokedAgain |-> FALSE]

(* handlePeerMessage, ReadPointData: the script adding the node is queued  *)
(* and _onceNodeExistsCallbacks.emplace(identifier, callback) begins       *)
ReadPointData ==
    /\ sim.kind = "callbacks" /\ sim.eventLoop = "idle"
    /\ sim.registrations < MaxRegistrations
    /\ \E identifier \in NodeIds :
        sim' = [sim EXCEPT
            !.eventLoop = "emplace",
            !.emplacing = identifier,
            !.requested = @ \cup {identifier},
            !.registrations = @ + 1,
            !.raced = FALSE]
    /\ UNCHANGED <<atmVars, step3D, integ, son, tel>>

(* The emplace ends.  The key is inserted unless it is in the map; after   *)
(* a race with an erase any of the entries may be lost.                    *)
EmplaceCallback ==
    /\ sim.kind = "callbacks" /\ sim.eventLoop = "emplace"
    /\ \E after \in SUBSET (sim.callbacks \cup {sim.emplacing}) :
        /\ ~sim.raced => after = sim.callbacks \cup {sim.emplacing}
        /\ sim' = [sim EXCEPT
                !.eventLoop = "idle", !.emplacing = 0, !.raced = FALSE,
                !.callbacks = after,
                !.waiting = @ \cup {sim.emplacing}]
    /\ UNCHANGED <<atmVars, step3D, integ, son, tel>>

(* The queued script runs on the main thread: the node exists from now on *)
AddSceneGraphNode ==
    /\ sim.kind = "callbacks" /\ sim.main = "idle"
    /\ \E identifier \in sim.requested \ sim.nodes :
        sim' = [sim EXCEPT !.nodes = @ \cup {identifier}]
    /\ UNCHANGED <<atmVars, step3D, integ, son, tel>>

(* preSyncUpdate up to the loop: return if the map is empty, else begin() *)
PreSyncUpdateBegin ==
    /\ sim.kind = "callbacks" /\ sim.main = "idle"
    /\ IF sim.callbacks = {}
       THEN sim' = [sim EXCEPT
                !.missed = @ \/ (sim.waiting \cap sim.nodes) # {}]
       ELSE sim' = [sim EXCEPT
                !.main = "traversing", !.it = 0,
                !.due = sim.waiting \cap sim.nodes]
    /\ UNCHANGED <<atmVars, step3D, integ, son, tel>>

(* One iteration of the loop of preSyncUpdate, or its end *)
PreSyncUpdateStep ==
    /\ sim.kind = "callbacks" /\ sim.main = "traversing"
    /\ LET rest == {k \in sim.callbacks : k > sim.it}
       IN  IF rest = {}
           THEN sim' = [sim EXCEPT
                    !.main = "idle", !.it = 0, !.due = {},
                    !.missed = @ \/ sim.due # {}]
           ELSE LET identifier == CHOOSE k \in rest : \A j \in rest : k <= j
                    sgn == identifier \in sim.nodes
                IN  IF sgn
                    THEN sim' = [sim EXCEPT
                             !.it = identifier,
                             !.callbacks = @ \ {identifier},
                             !.waiting = @ \ {identifier},
                             !.due = @ \ {identifier},
                             !.invokedAgain =
                                 @ \/ identifier \notin sim.waiting,
                             !.invokedWithoutNode =
                                 @ \/ identifier \notin sim.nodes,
                             !.raced = @ \/ sim.eventLoop = "emplace"]
                    ELSE sim' = [sim EXCEPT !.it = identifier]
    /\ UNCHANGED <<atmVars, step3D, integ, son, tel>>

----------------------------------------------------------------------------
(* Specifications *)

NoInteg == [fn |-> "none", pc |-> "none"]

IdleCaster ==
    InitCaster({"windowFBO"}, {<<0, 0, 1920, 1080>>},
               {[enabled |-> FALSE, equation |-> "GL_FUNC_ADD",
                 func |-> <<"GL_ONE", "GL_ZERO">>]}, {1}, {0})
    /\ config.saveCalculationTextures = FALSE

(* The lifecycle of the caster in every host render state *)
Init ==
    /\ InitCaster(HostFBOs, HostViewports, HostBlendStates,
                  1..MaxTextureScale, {0})
    /\ step3D = NoStep3D /\ integ = NoInteg /\ son = NoSon
    /\ tel = NoTel /\ sim = NoSim

Spec == Init /\ [][Next]_vars

(* The lifecycle of the caster with shadow configurations *)
InitFrames ==
    /\ InitCaster({"windowFBO"}, {<<0, 0, 1920, 1080>>}, HostBlendStates,
                  {1}, 0..MaxShadows)
    /\ step3D = NoStep3D /\ integ = NoInteg /\ son = NoSon
    /\ tel = NoTel /\ sim = NoSim

SpecFrames == InitFrames /\ [][Next]_vars

(* The layer loop *)
InitLayers ==
    /\ IdleCaster /\ InitStep3D /\ integ = NoInteg /\ son = NoSon
    /\ tel = NoTel /\ sim = NoSim

NextLayers == Step3DTexture

SpecLayers == InitLayers /\ [][NextLayers]_vars

(* The integrators *)
InitIntegrators ==
    /\ IdleCaster /\ step3D = NoStep3D /\ son = NoSon
    /\ tel = NoTel /\ sim = NoSim
    /\ (InitOpticalDepth \/ InitInscatter)

NextIntegrators ==
    \/ OpticalDepthEnter
    \/ OpticalDepthStep
    \/ OpticalDepthReturn
    \/ InscatterEnter
    \/ InscatterStep
    \/ InscatterReturn

SpecIntegrators == InitIntegrators /\ [][NextIntegrators]_vars

(* The sonifications *)
InitSonification ==
    /\ IdleCaster /\ step3D = NoStep3D /\ integ = NoInteg
    /\ tel = NoTel /\ sim = NoSim
    /\ (InitCameraSonification \/ InitTimeSonification)

NextSonification ==
    \/ MoveCamera
    \/ SetFrameTime
    \/ SetDistanceUnit
    \/ AdvanceTime
    \/ SetTimeUnit
    \/ SetEnabled
    \/ CameraUpdate
    \/ TimeUpdate

SpecSonification == InitSonification /\ [][NextSonification]_vars

(* The telemetry module *)
InitTelemetryModule ==
    /\ IdleCaster /\ step3D = NoStep3D /\ integ = NoInteg /\ son = NoSon
    /\ sim = NoSim
    /\ InitTelemetry

NextTelemetry ==
    \/ InternalInitialize
    \/ PostSyncPreDraw
    \/ SetEnabledBegin
    \/ SetEnabledEnd
    \/ SceneProgress
    \/ DeinitializeStop
    \/ DeinitializeNotify
    \/ DeinitializeJoin
    \/ UpdateLoopTest
    \/ UpdateWait
    \/ UpdateWake
    \/ UpdateSpuriousWake
    \/ UpdateCheckEnabled
    \/ UpdateSleepDone
    \/ UpdateCheckStatus
    \/ UpdateProcess

SpecTelemetry == InitTelemetryModule /\ [][NextTelemetry]_vars

(* The threads are scheduled: a step of the update thread or of            *)
(* internalDeinitialize that stays possible is taken.  A wait is not       *)
(* bound to return without a notification.                                 *)
FairTelemetry ==
    /\ WF_vars(DeinitializeStop)
    /\ WF_vars(DeinitializeNotify)
    /\ WF_vars(DeinitializeJoin)
    /\ WF_vars(UpdateLoopTest)
    /\ WF_vars(UpdateWait)
    /\ WF_vars(UpdateWake)
    /\ WF_vars(UpdateCheckEnabled)
    /\ WF_vars(UpdateSleepDone)
    /\ WF_vars(UpdateCheckStatus)
    /\ WF_vars(UpdateProcess)

SpecTelemetryFair == SpecTelemetry /\ FairTelemetry

(* The software integration module: server, event loop and peers *)
InitSoftwareIntegration ==
    /\ IdleCaster /\ step3D = NoStep3D /\ integ = NoInteg /\ son = NoSon
    /\ tel = NoTel
    /\ InitPeers

NextPeers ==
    \/ Start
    \/ Stop
    \/ StopJoinServer
    \/ StopJoinEventLoop
    \/ ServerLoopTest
    \/ ServerAwait
    \/ ServerEmplace
    \/ ConnectionLost
    \/ HandlePeer
    \/ EventLoopTest
    \/ HandlePeerMessage
    \/ DisconnectJoin
    \/ DisconnectErase

SpecPeers == InitSoftwareIntegration /\ [][NextPeers]_vars

(* The software integration module: the callbacks waiting for their node *)
InitNodeCallbacks ==
    /\ IdleCaster /\ step3D = NoStep3D /\ integ = NoInteg /\ son = NoSon
    /\ tel = NoTel
    /\ InitCallbacks

NextCallbacks ==
    \/ ReadPointData
    \/ EmplaceCallback
    \/ AddSceneGraphNode
    \/ PreSyncUpdateBegin
    \/ PreSyncUpdateStep

SpecCallbacks == InitNodeCallbacks /\ [][NextCallbacks]_vars

----------------------------------------------------------------------------
(* Properties of calculateAtmosphereParameters *)

AfterCalc == {"initialized", "raycasting", "deinitialized"}
FirstOrderPasses ==
    <<"transmittance", "deltaE", "deltaS", "irradiance", "inscattering">>
IterationPasses ==
    <<"deltaJ", "deltaE", "deltaS", "irradiance", "inscattering">>

IsDeltaJ(p) == p.pass = "deltaJ"
Iterations == SelectSeq(passes, IsDeltaJ)
PassIndex(name, order) ==
    {i \in 1..Len(passes) : passes[i].pass = name /\ passes[i].order = order}

(* C1: the multiple-scattering loop runs for the scattering orders 2, 3    *)
(* and 4, once each and in increasing order, only after the five           *)
(* first-order passes (transmittance, deltaE, deltaS, irradiance,          *)
(* in-scattering) have completed, and no other order is ever iterated.     *)
C1_OrdersTwoToFourOnce ==
    /\ \A i \in 1..Len(passes) :
          /\ passes[i].order \in 1..4
          /\ i <= 5 => /\ passes[i].order = 1
                       /\ passes[i].pass = FirstOrderPasses[i]
          /\ i > 5 => /\ passes[i].order = 2 + ((i - 6) \div 5)
                      /\ passes[i].pass = IterationPasses[1 + ((i - 6) % 5)]
    /\ \A k \in 1..Len(Iterations) : Iterations[k].order = k + 1
    /\ \A n \in 2..4 : Cardinality(PassIndex("deltaJ", n)) <= 1
    /\ pc \in AfterCalc =>
          /\ Len(passes) = 20
          /\ \A n \in 2..4 : \A name \in {"deltaJ", "deltaE", "deltaS",
                                          "irradiance", "inscattering"} :
                Cardinality(PassIndex(name, n)) = 1

C1_Witness ==
    /\ pc = "initialized"
    /\ Len(Iterations) = 3
    /\ Iterations[3].order = 4

(* C2: in the iteration for order n the deltaJ pass and the deltaE pass    *)
(* sample the deltaS tables while their newest result is of order n-1      *)
(* (held by deltaS Rayleigh); deltaS Rayleigh is overwritten with the      *)
(* order n result only after both, and that order n result is what the     *)
(* iteration adds to the in-scattering table.                              *)
C2_HigherOrdersFromLower ==
    /\ \A i \in 1..Len(passes) :
          LET p == passes[i] IN
          /\ (p.order >= 2 /\ p.pass \in {"deltaJ", "deltaE"}) =>
                /\ AllValid(p.reads["deltaSRayleigh"])
                /\ Len(p.reads["deltaSRayleigh"]) = 1
                /\ LastOrder(p.reads["deltaSRayleigh"]) = p.order - 1
                /\ AllValid(p.reads["deltaSMie"])
                /\ LastOrder(p.reads["deltaSMie"]) <= p.order - 1
          /\ (p.order >= 2 /\ p.pass = "deltaS") =>
                /\ p.target = "deltaSRayleigh"
                /\ \E j \in 1..(i - 1), k \in 1..(i - 1) :
                      /\ passes[j].pass = "deltaJ"
                      /\ passes[j].order = p.order
                      /\ passes[k].pass = "deltaE"
                      /\ passes[k].order = p.order
          /\ (p.order >= 2 /\ p.pass = "inscattering") =>
                /\ p.target = "inScatteringTable"
                /\ Len(p.reads["deltaSRayleigh"]) = 1
                /\ p.reads["deltaSRayleigh"][1] =
                      Term("deltaS", p.order, TRUE)
    /\ pc \in {"deltaJOrder", "deltaEOrder", "deltaSOrder"} =>
          texContent["deltaSRayleigh"] =
              <<Term("deltaS", locals.scatteringOrder - 1, TRUE)>>
    /\ pc \in {"enableBlend", "irradianceOrder", "inscatteringOrder",
               "endIteration"} =>
          texContent["deltaSRayleigh"] =
              <<Term("deltaS", locals.scatteringOrder, TRUE)>>
    /\ pc = "endIteration" =>
          LET s == texContent["inScatteringTable"] IN
          /\ Len(s) = locals.scatteringOrder
          /\ s[Len(s)] = Term("deltaS", locals.scatteringOrder, TRUE)

C2_Witness ==
    /\ pc = "endIteration"
    /\ locals.scatteringOrder = 4
    /\ texContent["deltaSMie"] = <<Term("deltaSMie", 1, TRUE)>>

(* C3: no pass samples a table that no earlier pass has rendered: every    *)
(* table a pass samples holds a valid result; transmittance is rendered    *)
(* before every pass that samples it; deltaE, deltaS Rayleigh and deltaS   *)
(* Mie before the first deltaJ pass; in each iteration deltaJ before the   *)
(* deltaS pass and deltaE before the irradiance pass that sample them.     *)
C3_NoReadBeforeWrite ==
    \A i \in 1..Len(passes) :
        LET p == passes[i] IN
        /\ \A t \in DOMAIN p.reads : AllValid(p.reads[t])
        /\ "transmittanceTable" \in DOMAIN p.reads =>
              \E j \in 1..(i - 1) : passes[j].pass = "transmittance"
        /\ p.pass = "deltaJ" =>
              /\ DOMAIN p.reads = {"transmittanceTable", "deltaE",
                                   "deltaSRayleigh", "deltaSMie"}
              /\ \A name \in {"deltaE", "deltaS"} :
                    \E j \in 1..(i - 1) : /\ passes[j].pass = name
                                          /\ passes[j].order = 1
        /\ (p.pass = "deltaS" /\ p.order >= 2) =>
              /\ p.reads["deltaJ"] = <<Term("deltaJ", p.order, TRUE)>>
              /\ \E j \in 1..(i - 1) : /\ passes[j].pass = "deltaJ"
                                       /\ passes[j].order = p.order
        /\ (p.pass = "irradiance" /\ p.order >= 2) =>
              /\ p.reads["deltaE"] = <<Term("deltaE", p.order, TRUE)>>
              /\ \E j \in 1..(i - 1) : /\ passes[j].pass = "deltaE"
                                       /\ passes[j].order = p.order

C3_Witness ==
    /\ pc = "restore"
    /\ Len(passes) = 20
    /\ passes[18].reads["deltaJ"] = <<Term("deltaJ", 4, TRUE)>>

(* C4: blending is disabled in the first-order passes and in every deltaJ, *)
(* deltaE and deltaS pass, additive blending (GL_FUNC_ADD, GL_ONE, GL_ONE) *)
(* is enabled for exactly the irradiance and in-scattering passes of the   *)
(* orders 2..4 and disabled again before the next iteration starts; so the *)
(* irradiance and in-scattering tables accumulate one term per order and   *)
(* the delta tables hold one term.                                         *)
C4_BlendOnlyForAccumulation ==
    /\ \A i \in 1..Len(passes) :
          LET p == passes[i] IN
          IF p.order >= 2 /\ p.pass \in {"irradiance", "inscattering"}
          THEN p.blend = [enabled |-> TRUE, equation |-> "GL_FUNC_ADD",
                          func |-> <<"GL_ONE", "GL_ONE">>]
          ELSE ~p.blend.enabled
    /\ pc \in {"deltaJOrder", "deltaEOrder", "deltaSOrder", "enableBlend",
               "restore"} => ~gl.blend.enabled
    /\ \A t \in DeltaTables : Len(texContent[t]) <= 1
    /\ pc \in {"restore", "initialized", "raycasting"} =>
          \A t \in {"irradianceTable", "inScatteringTable"} :
              /\ Len(texContent[t]) = 4
              /\ \A n \in 1..4 : /\ texContent[t][n].order = n
                                 /\ texContent[t][n].valid

C4_Witness ==
    /\ pc = "deltaJOrder"
    /\ locals.scatteringOrder = 3
    /\ Len(texContent["irradianceTable"]) = 2
    /\ cache.blend.enabled

(* C6: the calculation framebuffer, the quad VAO and VBO and the four      *)
(* delta textures are each created once and deleted exactly once before    *)
(* calculateAtmosphereParameters returns; only the three tables created by *)
(* initialize survive it, and deinitialize deletes exactly those three.    *)
C6_TemporariesDeletedOnce ==
    /\ \A o \in GLObjects : delCount[o] <= genCount[o] /\ genCount[o] <= 1
    /\ pc \notin (AfterCalc \cup {"constructed"}) =>
          /\ \A o \in GLObjects : delCount[o] = 0
          /\ \A o \in MemberTables : genCount[o] = 1
    /\ pc \in {"initialized", "raycasting"} =>
          /\ \A o \in DeltaTables \cup CalcObjects :
                genCount[o] = 1 /\ delCount[o] = 1
          /\ \A o \in MemberTables : genCount[o] = 1 /\ delCount[o] = 0
          /\ {o \in GLObjects : Alive(o)} = MemberTables
    /\ pc = "deinitialized" =>
          /\ \A o \in GLObjects : genCount[o] = 1 /\ delCount[o] = 1
          /\ {o \in GLObjects : Alive(o)} = {}

C6_Witness ==
    /\ pc = "deinitialized"
    /\ delCount["deltaJ"] = 1
    /\ delCount["inScatteringTable"] = 1

(* C7: calculateAtmosphereParameters saves the framebuffer binding and     *)
(* the viewport on entry, and on return the bound framebuffer is the one   *)
(* bound on entry, the viewport is the saved one and the blend state is    *)
(* the reset (cached) one, whatever the passes bound or set in between.    *)
C7_SavedOnEntry ==
    (pc = "calcSetup" /\ pc' = "transmittance") =>
        /\ locals'.defaultFBO = gl.boundFBO
        /\ locals'.viewport = gl.viewport
        /\ cache' = cache

C7_RestoredOnReturn ==
    pc \in AfterCalc =>
        /\ gl.boundFBO = locals.defaultFBO
        /\ gl.boundFBO \in HostFBOs
        /\ gl.viewport = locals.viewport
        /\ gl.viewport \in HostViewports
        /\ cache.viewport = gl.viewport
        /\ gl.blend = cache.blend

C7_HostStateRestored == [][C7_SavedOnEntry]_vars /\ []C7_RestoredOnReturn

C7_Witness ==
    /\ pc = "initialized"
    /\ gl.boundFBO = "gBufferFBO"
    /\ gl.blend.enabled
    /\ Len(passes) = 20
    /\ passes[20].blend.func = <<"GL_ONE", "GL_ONE">>

(* C5: every call of preRaycast ends with the transmittance, irradiance    *)
(* and in-scattering tables bound to their texture units and assigned to   *)
(* the sampler uniforms, culled or not and whatever the shadow             *)
(* configuration is; the following postRaycast deactivates the units.      *)
C5_TablesBoundByPreRaycast ==
    /\ pc = "raycasting" =>
          /\ \A u \in MemberTables : units[u].assigned /\ units[u].bound = u
          /\ uniforms.transmittanceTexture = "transmittanceTable"
          /\ uniforms.irradianceTexture = "irradianceTable"
          /\ uniforms.inscatterTexture = "inScatteringTable"
    /\ pc = "initialized" => \A u \in MemberTables : ~units[u].assigned

(* C19: after every preRaycast call in which the atmosphere is not culled  *)
(* _shadowDataArrayCache holds exactly one entry per configured shadow, in *)
(* configuration order, so that the front entry eclipseShadow reads is the *)
(* one of the first configured caster.                                     *)
C19_CacheHoldsEveryConfiguredShadow ==
    (pc = "raycasting" /\ uniforms.cullAtmosphere = 0) =>
        /\ Len(shadowDataArrayCache) = Len(shadowConfArray)
        /\ \A i \in 1..Len(shadowDataArrayCache) :
              shadowDataArrayCache[i].conf = i

----------------------------------------------------------------------------
(* Properties of step3DTexture *)

(* C9: for rSamples >= 2 and Rg < Rt the radii of the layers are strictly  *)
(* increasing and inside the atmosphere:                                   *)
(* Rg < r(0) < r(1) < ... < r(rSamples-1) < Rt.                            *)
C9_LayersIncreasingInside ==
    (step3D.rSamples >= 2 /\ step3D.Rg < step3D.Rt
        /\ step3D.layer = step3D.rSamples) =>
        LET r == step3D.radii IN
        /\ step3D.Rg < r[1]
        /\ \A i \in 1..(Len(r) - 1) : r[i] < r[i + 1]
        /\ r[Len(r)] < step3D.Rt

(* A state in which the chain does hold: an atmosphere thick enough *)
C9_HoldsForThickAtmosphere ==
     (/\ step3D.rSamples = 4
      /\ step3D.layer = 4
      /\ step3D.Rt - step3D.Rg = 120
      /\ step3D.Rg < step3D.radii[1]
      /\ \A i \in 1..3 : step3D.radii[i] < step3D.radii[i + 1]
      /\ step3D.radii[4] < step3D.Rt)

----------------------------------------------------------------------------
(* Properties of the integrators *)

RECURSIVE SumFrom(_, _, _)
SumFrom(f, lo, hi) ==
    IF lo > hi THEN 0
    ELSE IF lo = hi THEN f[lo]
    ELSE LET mid == (lo + hi) \div 2
         IN  SumFrom(f, lo, mid) + SumFrom(f, mid + 1, hi)

(* The sum over i = 1..N of f(x_i) + f(x_(i-1)): both end samples once,    *)
(* every interior sample twice                                             *)
TrapezoidSum(f, N) == f[0] + f[N] + 2 * SumFrom(f, 1, N - 1)

OpticalDepthSamples ==
    LET b_a == RayDistance(integ.in.r, integ.in.mu, Atmosphere.Rt,
                           Atmosphere.Rg)
    IN  [i \in 0..TransmittanceSteps |->
            OpticalDepthSample(integ.in.r, integ.in.mu, integ.in.H, b_a, i)]

InscatterSamples(k) ==
    LET rayDist == RayDistance(integ.in.r, integ.in.mu, Atmosphere.Rt,
                               Atmosphere.Rg)
    IN  [i \in 0..InscatterIntegralSamples |->
            Integrand(integ.in, i * rayDist)[k]]

OpticalDepthIsTrapezoid ==
    integ.result[1] =
        <<RayDistance(integ.in.r, integ.in.mu, Atmosphere.Rt, Atmosphere.Rg)
              * TrapezoidSum(OpticalDepthSamples, TransmittanceSteps),
          2 * TransmittanceSteps>>

InscatterIsTrapezoid ==
    LET rayDist == RayDistance(integ.in.r, integ.in.mu, Atmosphere.Rt,
                               Atmosphere.Rg)
        beta == <<integ.in.betaRayleigh, integ.in.betaMieScattering>>
    IN  \A k \in 1..2 :
            integ.result[k] =
                <<beta[k] * rayDist
                      * TrapezoidSum(InscatterSamples(k),
                                     InscatterIntegralSamples),
                  2 * InscatterIntegralSamples>>

(* C8 as stated: opticalDepth (N = 500) and inscatter (N = 50) each return *)
(* (b-a)/(2N) times the sum over i = 1..N of f(x_i) + f(x_(i-1)) with     *)
(* x_i = i (b-a)/N, for every argument.                                    *)
C8_AlwaysTrapezoid ==
    integ.pc = "done" =>
        /\ integ.fn = "opticalDepth" => OpticalDepthIsTrapezoid
        /\ integ.fn = "inscatter" => InscatterIsTrapezoid

(* C8: inscatter returns the trapezoidal sum (b-a)/(2N) * sum over         *)
(* i = 1..N of f(x_i) + f(x_(i-1)) with N = 50, f being the integrand      *)
(* scaled by the scattering coefficient; opticalDepth returns it with      *)
(* N = 500 unless the ray points below the horizon                         *)
(* (mu < -sqrt(1 - Rg^2/r^2)), where it returns 1e9 without integrating.   *)
C8_TrapezoidAboveHorizon ==
    integ.pc = "done" =>
        /\ integ.fn = "opticalDepth" =>
              IF BelowHorizon(integ.in.r, integ.in.mu, Atmosphere.Rg)
              THEN integ.result = <<<<BelowHorizonDepth, 1>>>>
              ELSE OpticalDepthIsTrapezoid
        /\ integ.fn = "inscatter" => InscatterIsTrapezoid

C8_Witness ==
    /\ integ.fn = "opticalDepth" /\ integ.pc = "done"
    /\ ~BelowHorizon(integ.in.r, integ.in.mu, Atmosphere.Rg)
    /\ integ.i = TransmittanceSteps + 1
    /\ integ.b_a > 0
    /\ OpticalDepthSamples[0] > OpticalDepthSamples[TransmittanceSteps]
    /\ OpticalDepthSamples[TransmittanceSteps \div 2]
           > OpticalDepthSamples[TransmittanceSteps]
    /\ integ.result[1][1] > 0

(* An inscatter run that integrated a varying, non-zero integrand *)
C8_InscatterIntegrated ==
    /\ integ.fn = "inscatter" /\ integ.pc = "done"
    /\ integ.b_a > 0
    /\ InscatterSamples(1)[0] # InscatterSamples(1)[InscatterIntegralSamples]
    /\ integ.result[1][1] > 0 /\ integ.result[2][1] > 0

----------------------------------------------------------------------------
(* Properties of the sonifications *)

(* A step of an update call: the other steps leave phase at "idle" *)
UpdateStep == son'.phase = "updated"

StoredCamera(s) == <<s.cameraPosition, s.cameraRotation, s.cameraSpeed>>
StoredTime(s) == <<s.timeSpeed, s.currentTime>>

(* The distance of each tracked quantity to its stored value *)
PositionExceeds ==
    Abs(son.env.position - son.cameraPosition) > son.precision.position

RotationExceeds ==
    \E k \in 1..2 :
        Abs(son.env.rotation[k] - son.cameraRotation[k])
            > son.precision.rotation

(* The speed is 0.0 when the average frame time is 0 *)
SpeedExceeds ==
    LET speed == IF son.env.averageDeltaTime = 0 THEN 0
                 ELSE (Abs(son.env.position - son.cameraPosition)
                          * SpeedScale)
                          \div (ToMeter(son.env.unit)
                                    * son.env.averageDeltaTime)
    IN  Abs(speed - son.cameraSpeed) > son.precision.speed * SpeedScale

TimeSpeedExceeds ==
    Abs((son.env.deltaTime * TimeSpeedScale) \div ToSecond(son.env.unit)
            - son.timeSpeed) > son.precision.time * TimeSpeedScale

CurrentTimeExceeds ==
    Abs(son.env.j2000Seconds - son.currentTime) > son.precision.time

(* What an update call may do, given which quantities count as new *)
SendsOnlyNewData(newPosition, newRotation, newSpeed) ==
    /\ son'.env = son.env
    /\ ~son.enabled =>
          /\ son'.outbox = <<>>
          /\ StoredCamera(son') = StoredCamera(son)
    /\ son.enabled =>
          /\ Len(son'.outbox) =
                 (IF newPosition \/ newRotation \/ newSpeed THEN 1 ELSE 0)
          /\ \A i \in 1..Len(son'.outbox) :
                 /\ son'.outbox[i].label = "/Camera"
                 /\ son'.outbox[i].data[1] = son'.cameraPosition
                 /\ son'.outbox[i].data[2] = son'.cameraRotation
                 /\ son'.outbox[i].data[3] = son'.cameraSpeed
          /\ son'.cameraPosition # son.cameraPosition => newPosition
          /\ son'.cameraRotation # son.cameraRotation => newRotation
          /\ son'.cameraSpeed # son.cameraSpeed => newSpeed

TimeSendsOnlyNewData ==
    /\ son'.env = son.env
    /\ ~son.enabled =>
          /\ son'.outbox = <<>>
          /\ StoredTime(son') = StoredTime(son)
    /\ son.enabled =>
          /\ Len(son'.outbox) =
                 (IF TimeSpeedExceeds \/ CurrentTimeExceeds THEN 1 ELSE 0)
          /\ \A i \in 1..Len(son'.outbox) :
                 /\ son'.outbox[i].label = "/Time"
                 /\ son'.outbox[i].data[1] = son'.timeSpeed
                 /\ son'.outbox[i].data[3] = son'.currentTime
          /\ son'.timeSpeed # son.timeSpeed => TimeSpeedExceeds
          /\ son'.currentTime # son.currentTime => CurrentTimeExceeds

(* C10 as stated: an update call of a disabled sonification sends nothing; *)
(* an update call of an enabled one sends exactly one OSC message if and   *)
(* only if at least one tracked quantity (position, rotation, speed; time  *)
(* speed, current time) differs from its stored value by more than its     *)
(* precision, and changes the stored value of such a quantity only.        *)
C10_SendsIffAnyQuantityIsNew ==
    [][UpdateStep =>
          /\ son.object = "camera" =>
                SendsOnlyNewData(PositionExceeds, RotationExceeds,
                                 SpeedExceeds)
          /\ son.object = "time" => TimeSendsOnlyNewData]_vars

(* C10: as above, with the camera speed counted as a tracked quantity     *)
(* only in an update call whose average frame time is not zero.            *)
C10_SendsIffNewWithFrameTime ==
    [][UpdateStep =>
          /\ son.object = "camera" =>
                SendsOnlyNewData(PositionExceeds, RotationExceeds,
                                 son.env.averageDeltaTime # 0
                                     /\ SpeedExceeds)
          /\ son.object = "time" => TimeSendsOnlyNewData]_vars

(* An enabled camera sonification has sent its message in a frame without *)
(* a frame time, for a new position, keeping an older non-zero speed       *)
C10_Witness ==
    /\ son.object = "camera" /\ son.phase = "updated" /\ son.enabled
    /\ son.env.averageDeltaTime = 0
    /\ Len(son.outbox) = 1
    /\ son.cameraPosition = son.env.position
    /\ son.cameraSpeed > SpeedScale

(* An enabled time sonification has sent its message *)
C10_TimeSent ==
    /\ son.object = "time" /\ son.phase = "updated" /\ son.enabled
    /\ Len(son.outbox) = 1
    /\ son.timeSpeed > 0 /\ son.currentTime = son.env.j2000Seconds

----------------------------------------------------------------------------
(* Properties of the telemetry module *)

InIteration ==
    tel.thread \in {"woken", "sleeping", "checkStatus", "process"}

(* C11: on the master node internalDeinitialize always terminates: once it *)
(* has set _isRunning to false and notified the condition variable, the    *)
(* update thread leaves its loop and join returns, wherever the update     *)
(* thread was.                                                             *)
C11_DeinitializeTerminates ==
    (tel.isMaster /\ tel.main = "joining")
        ~> (tel.main = "deinitialized" /\ tel.thread = "exited")

(* C12: the update thread starts an iteration only after the main thread   *)
(* has signalled a new frame or shutdown, and performs at most one         *)
(* iteration per signal.                                                   *)
C12_IterationOnlyAfterSignal ==
    /\ InIteration => tel.wake = "notified"
    /\ tel.main # "none" => tel.iterations <= tel.signals

(* C13: internalDeinitialize returns normally on every node, also on one   *)
(* that is not the master and never started the update thread.             *)
C13_DeinitializeReturnsOnEveryNode ==
    tel.main # "joinThrew"

(* C14: update(camera) of the telemetries is called only in an iteration   *)
(* whose check found the module enabled, and only once the update thread   *)
(* has observed a ready scene.                                             *)
C14_UpdateOnlyEnabledAndReady ==
    (tel.main # "none" /\ tel.updateCalls > 0) =>
        /\ TRUE \in tel.enabledAtCheck
        /\ tel.observedReady
        /\ SceneStages[tel.sceneStage] = "ready"

(* The telemetries were updated in an iteration, after iterations that     *)
(* found no ready scene; the module has been disabled since the check      *)
C14_Witness ==
    /\ tel.main = "running" /\ tel.thread = "loopTest"
    /\ tel.updateCalls = 1
    /\ tel.iterations >= 2
    /\ ~tel.enabled

----------------------------------------------------------------------------
(* Properties of the software integration module *)

StartedPeers == {id \in PeerIds : sim.thread[id] # "notStarted"}

(* C15: when stop has returned, the server thread, the event-loop thread   *)
(* and the handler thread of every peer have terminated.                   *)
C15_StopLeavesNoThread ==
    (sim.kind = "peers" /\ sim.main = "stopped") =>
        /\ sim.server = "exited"
        /\ sim.eventLoop = "exited"
        /\ \A id \in StartedPeers : sim.thread[id] = "exited"

(* C16: _peers is never accessed by two threads at once: every lookup,     *)
(* insertion and erase is performed while _peerListMutex is held.          *)
C16_PeerMapUnderMutex ==
    sim.kind = "peers" =>
        /\ Cardinality(sim.accessing) <= 1
        /\ ~sim.lookupOverlapped
        /\ sim.unlockedAccesses = {}

(* C18: a handler thread that has exited because the connection to its    *)
(* peer was lost has pushed exactly one Disconnection message; once the    *)
(* event loop has handled that message the peer is disconnected, its       *)
(* thread joined and the peer erased from the peer map.                    *)
C18_LostPeerIsRemoved ==
    sim.kind = "peers" =>
        /\ \A id \in PeerIds :
              sim.exitedBy[id] \in {"notConnected", "lost"} =>
                  sim.pushed[id] = 1
        /\ \A id \in sim.handled :
              /\ sim.connection[id] = "disconnected"
              /\ id \in sim.joined
              /\ sim.thread[id] = "exited"
              /\ id \notin sim.peers

(* C17: each callback put in _onceNodeExistsCallbacks is invoked exactly    *)
(* once, in the first preSyncUpdate in which the node with its identifier  *)
(* exists, is removed from the map at that moment, and is never invoked    *)
(* while the node does not exist.                                          *)
C17_CallbackOnceNodeExists ==
    sim.kind = "callbacks" =>
        /\ ~sim.missed
        /\ ~sim.invokedAgain
        /\ ~sim.invokedWithoutNode
        /\ sim.eventLoop = "idle" => sim.callbacks = sim.waiting

====
